---- MODULE Spec2Model ----
(***************************************************************************)
(* Model of hana_ml/algorithms/pal/random.py: the wrappers around the PAL  *)
(* random distribution sampling procedures.                                *)
(*                                                                         *)
(* Numbers are counted in halves: the Python value v is the integer 2*v,   *)
(* so that 0.5 and 1.5 exist next to 0, 1 and -1.  A number with an even   *)
(* count of halves is a Python int, one with an odd count is a float.      *)
(***************************************************************************)
EXTENDS Integers, Sequences, FiniteSets, TLC

\* ------------------------------------------------------------------ bounds
\* the largest distribution parameter, in halves
MaxHalf == 3
\* most categories in a pvals tuple
MaxCats == 2

\* ------------------------------------------------------------------ values
\* A Python value is a record: its kind and, for a number, its count of
\* halves.
None == [t |-> "None", v |-> 0]
Half(h) == [t |-> "num", v |-> h]
Str(s) == [t |-> "str", v |-> s]
Tuple(s) == [t |-> "tuple", v |-> s]
List(s) == [t |-> "list", v |-> s]
Bool(b) == [t |-> "bool", v |-> IF b THEN 1 ELSE 0]
\* a numpy.ndarray: its elements, or for a matrix its rows as lists
Ndarray(s) == [t |-> "ndarray", v |-> s]

\* the integer literal n of the source
Num(n) == Half(2 * n)

\* the numbers the arguments are drawn from: -1, 0, 0.5, 1, 1.5, ...
Numbers == {Num(-1)} \cup {Half(h) : h \in 0..MaxHalf}
ParamVals == Numbers \cup {None}
NumRandomVals == {None, Num(-1), Num(0), Half(1), Num(1)}
SeedVals == {None, Num(-1), Num(1)}
ThreadVals == {None, Half(1)}
PvalVals == {Num(-1), Num(0), Half(1), Num(1), Half(3)}
TrialVals == {None, Half(1), Num(1)}

IsNumber(x) == x.t = "num"
\* isinstance(x, int)
IsInt(x) == IsNumber(x) /\ x.v % 2 = 0

\* int(x): truncation toward zero
int(x) == IF x.v >= 0 THEN Half((x.v \div 2) * 2)
          ELSE Half(0 - (((0 - x.v) \div 2) * 2))

Calls == {1, 2}

UnivariateFns == {"bernoulli", "beta", "binomial", "cauchy", "chi_squared",
                  "exponential", "gumbel", "f", "gamma", "geometric",
                  "lognormal", "negative_binomial", "normal", "pert",
                  "poisson", "student_t", "uniform", "weibull"}

\* ------------------------------------------------------------------ errors
\* An exception is its class, its message and the length of its args tuple.
NoErr == [type |-> "none", msg |-> "", nargs |-> 0]
ValueError(m) == [type |-> "ValueError", msg |-> m, nargs |-> 1]
\* the error of arg(), classified by the parameter it names
ArgError(name) == [type |-> "InvalidArgument", msg |-> name, nargs |-> 1]
\* Python 3: an ordering comparison with None
TypeError == [type |-> "TypeError", msg |-> "ordering comparison with None", nargs |-> 1]

IsInvalidArgument(e) == e.type \in {"ValueError", "InvalidArgument"}

\* arg(attr, value, constraint, required): None passes unless required; an
\* int is accepted (and converted) where a float is declared; anything else
\* must be an instance of the declared type ("list" stands for the pair
\* (list, np.ndarray))
arg(attr, value, constraint, required) ==
    IF value = None
    THEN [ok |-> ~required, val |-> None, err |-> ArgError(attr)]
    ELSE CASE constraint = "float" ->
                [ok |-> IsNumber(value), val |-> value, err |-> ArgError(attr)]
           [] constraint = "int" ->
                [ok |-> IsInt(value), val |-> value, err |-> ArgError(attr)]
           [] constraint = "int_or_float" ->
                [ok |-> IsNumber(value), val |-> value, err |-> ArgError(attr)]
           [] constraint = "tuple" ->
                [ok |-> value.t = "tuple", val |-> value, err |-> ArgError(attr)]
           [] constraint = "list" ->
                [ok |-> value.t \in {"list", "ndarray"}, val |-> value,
                 err |-> ArgError(attr)]
           [] constraint = "bool" ->
                [ok |-> value.t = "bool", val |-> value, err |-> ArgError(attr)]

\* the three outcomes of evaluating an ordering comparison
Cmp(x, y, holds) ==
    IF x = None \/ y = None THEN "raise" ELSE IF holds THEN "True" ELSE "False"
Lt(x, y) == Cmp(x, y, x.v < y.v)
Le(x, y) == Cmp(x, y, x.v <= y.v)
Gt(x, y) == Lt(y, x)
Ge(x, y) == Le(y, x)

\* `a or b`: b is evaluated only when a is false
Or(a, b) == IF a = "False" THEN b ELSE a

\* any(...) over the outcomes of its elements, left to right
RECURSIVE any(_)
any(s) == IF s = <<>> THEN "False" ELSE Or(Head(s), any(Tail(s)))

\* sorted(list): insertion sort; it raises when an element is None
RECURSIVE insert(_, _)
insert(x, s) ==
    IF s = <<>> THEN <<x>>
    ELSE IF x.v < Head(s).v THEN <<x>> \o s ELSE <<Head(s)>> \o insert(x, Tail(s))
RECURSIVE sort(_)
sort(s) == IF s = <<>> THEN <<>> ELSE insert(Head(s), sort(Tail(s)))
sorted(s) ==
    IF \E i \in 1..Len(s) : s[i] = None THEN [ok |-> FALSE, val |-> <<>>]
    ELSE [ok |-> TRUE, val |-> sort(s)]

\* ------------------------------------------------------- the entry points
\* Each entry point is applied to its arguments and either raises or hands
\* its dist_param list to _rds.
Raise(e) == [ok |-> FALSE, err |-> e, dist_param |-> <<>>]
Delegate(dp) == [ok |-> TRUE, err |-> NoErr, dist_param |-> dp]

\* the first failing arg() of a sequence of arg results, if any
RECURSIVE FirstFailure(_)
FirstFailure(rs) ==
    IF rs = <<>> THEN NoErr
    ELSE IF ~Head(rs).ok THEN Head(rs).err ELSE FirstFailure(Tail(rs))

MsgRangeP == "Parameter p should be in the range of 0 and 1."

\* bernoulli without the upper bound on p
bernoulli_unbounded(a) ==
    LET p == arg("p", a.p, "float", FALSE)
        bad == Lt(p.val, Num(0))
    IN  IF ~p.ok THEN Raise(p.err)
        ELSE IF bad = "raise" THEN Raise(TypeError)
        ELSE IF bad = "True" THEN Raise(ValueError(MsgRangeP))
        ELSE Delegate(<< <<"DISTRIBUTIONNAME", Str("BERNOULLI")>>,
                         <<"SUCCESS_FRACTION", p.val>> >>)

bernoulli(a) ==
    LET p == arg("p", a.p, "float", FALSE)
        bad == Or(Lt(p.val, Num(0)), Gt(p.val, Num(1)))
    IN  IF ~p.ok THEN Raise(p.err)
        ELSE IF bad = "raise" THEN Raise(TypeError)
        ELSE IF bad = "True" THEN Raise(ValueError(MsgRangeP))
        ELSE Delegate(<< <<"DISTRIBUTIONNAME", Str("BERNOULLI")>>,
                         <<"SUCCESS_FRACTION", p.val>> >>)

MsgBetaAB == "Parameters a and b should be greater than zero."

beta(a) ==
    LET x == arg("a", a.a, "float", FALSE)
        y == arg("b", a.b, "float", FALSE)
        f1 == FirstFailure(<<x, y>>)
        bad == any(<<Le(x.val, Num(0)), Le(y.val, Num(0))>>)
    IN  IF f1 # NoErr THEN Raise(f1)
        ELSE IF bad = "raise" THEN Raise(TypeError)
        ELSE IF bad = "True" THEN Raise(ValueError(MsgBetaAB))
        ELSE Delegate(<< <<"DISTRIBUTIONNAME", Str("BETA")>>,
                         <<"SHAPE1", x.val>>, <<"SHAPE2", y.val>> >>)

MsgBinomialN == "Parameter n should be at least zero."

binomial(a) ==
    LET p == arg("p", a.p, "float", FALSE)
        n == arg("n", a.n, "int", FALSE)
        f1 == FirstFailure(<<p, n>>)
        badp == Or(Lt(p.val, Num(0)), Gt(p.val, Num(1)))
        badn == Lt(n.val, Num(0))
    IN  IF f1 # NoErr THEN Raise(f1)
        ELSE IF badp = "raise" THEN Raise(TypeError)
        ELSE IF badp = "True" THEN Raise(ValueError(MsgRangeP))
        ELSE IF badn = "raise" THEN Raise(TypeError)
        ELSE IF badn = "True" THEN Raise(ValueError(MsgBinomialN))
        ELSE Delegate(<< <<"DISTRIBUTIONNAME", Str("BINOMIAL")>>,
                         <<"SUCCESS_FRACTION", p.val>>, <<"TRIALS", n.val>> >>)

MsgScale == "Parameter scale should be greater than zero."

cauchy(a) ==
    LET location == arg("location", a.location, "float", FALSE)
        scale == arg("scale", a.scale, "float", FALSE)
        f1 == FirstFailure(<<location, scale>>)
        bad == Le(scale.val, Num(0))
    IN  IF f1 # NoErr THEN Raise(f1)
        ELSE IF bad = "raise" THEN Raise(TypeError)
        ELSE IF bad = "True" THEN Raise(ValueError(MsgScale))
        ELSE Delegate(<< <<"DISTRIBUTIONNAME", Str("CAUCHY")>>,
                         <<"LOCATION", location.val>>, <<"SCALE", scale.val>> >>)

MsgDof == "Parameter dof should be greater than zero."

chi_squared(a) ==
    LET dof == arg("dof", a.dof, "int", FALSE)
        bad == Le(dof.val, Num(0))
    IN  IF ~dof.ok THEN Raise(dof.err)
        ELSE IF bad = "raise" THEN Raise(TypeError)
        ELSE IF bad = "True" THEN Raise(ValueError(MsgDof))
        ELSE Delegate(<< <<"DISTRIBUTIONNAME", Str("CHI_SQUARED")>>,
                         <<"DEGREES_OF_FREEDOM", dof.val>> >>)

MsgLamb == "Parameter lamb should be greater than zero."

exponential(a) ==
    LET lamb == arg("lamb", a.lamb, "float", FALSE)
        bad == Le(lamb.val, Num(0))
    IN  IF ~lamb.ok THEN Raise(lamb.err)
        ELSE IF bad = "raise" THEN Raise(TypeError)
        ELSE IF bad = "True" THEN Raise(ValueError(MsgLamb))
        ELSE Delegate(<< <<"DISTRIBUTIONNAME", Str("EXPONENTIAL")>>,
                         <<"RATE", lamb.val>> >>)

gumbel(a) ==
    LET location == arg("location", a.location, "float", FALSE)
        scale == arg("scale", a.scale, "float", FALSE)
        f1 == FirstFailure(<<location, scale>>)
        bad == Le(scale.val, Num(0))
    IN  IF f1 # NoErr THEN Raise(f1)
        ELSE IF bad = "raise" THEN Raise(TypeError)
        ELSE IF bad = "True" THEN Raise(ValueError(MsgScale))
        ELSE Delegate(<< <<"DISTRIBUTIONNAME", Str("EXTREME_VALUE")>>,
                         <<"LOCATION", location.val>>, <<"SCALE", scale.val>> >>)

MsgDof12 == "Parameters dof1 and dof2 should be positive."

f(a) ==
    LET dof1 == arg("dof1", a.dof1, "float", FALSE)
        dof2 == arg("dof2", a.dof2, "float", FALSE)
        f1 == FirstFailure(<<dof1, dof2>>)
        bad == any(<<Le(dof1.val, Num(0)), Le(dof2.val, Num(0))>>)
    IN  IF f1 # NoErr THEN Raise(f1)
        ELSE IF bad = "raise" THEN Raise(TypeError)
        ELSE IF bad = "True" THEN Raise(ValueError(MsgDof12))
        ELSE Delegate(<< <<"DISTRIBUTIONNAME", Str("FISHER_F")>>,
                         <<"DEGREES_OF_FREEDOM1", dof1.val>>,
                         <<"DEGREES_OF_FREEDOM2", dof2.val>> >>)

MsgShapeScale == "Parameters shape and scale should be greater than zero."

gamma(a) ==
    LET shape == arg("shape", a.shape, "float", FALSE)
        scale == arg("scale", a.scale, "float", FALSE)
        f1 == FirstFailure(<<shape, scale>>)
        bad == any(<<Le(shape.val, Num(0)), Le(scale.val, Num(0))>>)
    IN  IF f1 # NoErr THEN Raise(f1)
        ELSE IF bad = "raise" THEN Raise(TypeError)
        ELSE IF bad = "True" THEN Raise(ValueError(MsgShapeScale))
        ELSE Delegate(<< <<"DISTRIBUTIONNAME", Str("GAMMA")>>,
                         <<"SHAPE", shape.val>>, <<"SCALE", scale.val>> >>)

MsgRangePGeometric == "Parameter p should be in the range of 0 and 1"

geometric(a) ==
    LET p == arg("p", a.p, "float", FALSE)
        bad == Or(Lt(p.val, Num(0)), Gt(p.val, Num(1)))
    IN  IF ~p.ok THEN Raise(p.err)
        ELSE IF bad = "raise" THEN Raise(TypeError)
        ELSE IF bad = "True" THEN Raise(ValueError(MsgRangePGeometric))
        ELSE Delegate(<< <<"DISTRIBUTIONNAME", Str("GEOMETRIC")>>,
                         <<"SUCCESS_FRACTION", p.val>> >>)

MsgSigma == "Parameter sigma should be greater than zero."

lognormal(a) ==
    LET mean == arg("mean", a.mean, "float", FALSE)
        sigma == arg("sigma", a.sigma, "float", FALSE)
        f1 == FirstFailure(<<mean, sigma>>)
        bad == Le(sigma.val, Num(0))
    IN  IF f1 # NoErr THEN Raise(f1)
        ELSE IF bad = "raise" THEN Raise(TypeError)
        ELSE IF bad = "True" THEN Raise(ValueError(MsgSigma))
        ELSE Delegate(<< <<"DISTRIBUTIONNAME", Str("LOGNORMAL")>>,
                         <<"LOCATION", mean.val>>, <<"SCALE", sigma.val>> >>)

MsgNegBinomialN == "Parameter n should be greater than zero."

negative_binomial(a) ==
    LET n0 == arg("n", a.n, "int_or_float", FALSE)
        n == IF n0.val # None /\ n0.ok THEN int(n0.val) ELSE n0.val
        p == arg("p", a.p, "float", FALSE)
        f1 == FirstFailure(<<n0, p>>)
        badn == Le(n, Num(0))
        badp == Or(Lt(p.val, Num(0)), Gt(p.val, Num(1)))
    IN  IF f1 # NoErr THEN Raise(f1)
        ELSE IF badn = "raise" THEN Raise(TypeError)
        ELSE IF badn = "True" THEN Raise(ValueError(MsgNegBinomialN))
        ELSE IF badp = "raise" THEN Raise(TypeError)
        ELSE IF badp = "True" THEN Raise(ValueError(MsgRangeP))
        ELSE Delegate(<< <<"DISTRIBUTIONNAME", Str("NEGATIVE_BINOMIAL")>>,
                         <<"SUCCESSES", n>>, <<"SUCCESS_FRACTION", p.val>> >>)

MsgNormalBoth == "Parameters variance and sigma cannot be used together. Please choose one from them."

\* normal without the check that sigma and variance exclude each other
normal_both(a) ==
    LET mean == arg("mean", a.mean, "float", FALSE)
        sigma == arg("sigma", a.sigma, "float", FALSE)
        variance == arg("variance", a.variance, "float", FALSE)
        f1 == FirstFailure(<<mean, sigma, variance>>)
        bad == Le(sigma.val, Num(0))
    IN  IF f1 # NoErr THEN Raise(f1)
        ELSE IF bad = "raise" THEN Raise(TypeError)
        ELSE IF bad = "True" THEN Raise(ValueError(MsgSigma))
        ELSE Delegate(<< <<"DISTRIBUTIONNAME", Str("NORMAL")>>,
                         <<"MEAN", mean.val>>, <<"VARIANCE", variance.val>>,
                         <<"SD", sigma.val>> >>)

normal(a) ==
    LET mean == arg("mean", a.mean, "float", FALSE)
        sigma == arg("sigma", a.sigma, "float", FALSE)
        variance == arg("variance", a.variance, "float", FALSE)
        f1 == FirstFailure(<<mean, sigma, variance>>)
        bad == Le(sigma.val, Num(0))
    IN  IF f1 # NoErr THEN Raise(f1)
        ELSE IF sigma.val # None /\ variance.val # None
             THEN Raise(ValueError(MsgNormalBoth))
        ELSE IF bad = "raise" THEN Raise(TypeError)
        ELSE IF bad = "True" THEN Raise(ValueError(MsgSigma))
        ELSE Delegate(<< <<"DISTRIBUTIONNAME", Str("NORMAL")>>,
                         <<"MEAN", mean.val>>, <<"VARIANCE", variance.val>>,
                         <<"SD", sigma.val>> >>)

MsgPertOrder == "minimum should be less than or equal to mode, and mode should be less than or equal to maximum."

\* pert with the strict ordering of its comment, MIN < MODE < MAX
pert_strict(a) ==
    LET minimum == arg("minimum", a.minimum, "float", FALSE)
        mode == arg("mode", a.mode, "float", FALSE)
        maximum == arg("maximum", a.maximum, "float", FALSE)
        scale == arg("scale", a.scale, "float", FALSE)
        f1 == FirstFailure(<<minimum, mode, maximum, scale>>)
        bad == Or(Ge(minimum.val, mode.val), Ge(mode.val, maximum.val))
    IN  IF f1 # NoErr THEN Raise(f1)
        ELSE IF bad = "raise" THEN Raise(TypeError)
        ELSE IF bad = "True" THEN Raise(ValueError(MsgPertOrder))
        ELSE Delegate(<< <<"DISTRIBUTIONNAME", Str("PERT")>>,
                         <<"MIN", minimum.val>>, <<"MODE", mode.val>>,
                         <<"MAX", maximum.val>>, <<"SCALE", scale.val>> >>)

pert(a) ==
    LET minimum == arg("minimum", a.minimum, "float", FALSE)
        mode == arg("mode", a.mode, "float", FALSE)
        maximum == arg("maximum", a.maximum, "float", FALSE)
        scale == arg("scale", a.scale, "float", FALSE)
        f1 == FirstFailure(<<minimum, mode, maximum, scale>>)
        given == <<minimum.val, mode.val, maximum.val>>
        srt == sorted(given)
    IN  IF f1 # NoErr THEN Raise(f1)
        ELSE IF ~srt.ok THEN Raise(TypeError)
        ELSE IF srt.val # given THEN Raise(ValueError(MsgPertOrder))
        ELSE Delegate(<< <<"DISTRIBUTIONNAME", Str("PERT")>>,
                         <<"MIN", minimum.val>>, <<"MODE", mode.val>>,
                         <<"MAX", maximum.val>>, <<"SCALE", scale.val>> >>)

MsgTheta == "Parameter theta should be greater than zero."

poisson(a) ==
    LET theta == arg("theta", a.theta, "float", FALSE)
        bad == Le(theta.val, Num(0))
    IN  IF ~theta.ok THEN Raise(theta.err)
        ELSE IF bad = "raise" THEN Raise(TypeError)
        ELSE IF bad = "True" THEN Raise(ValueError(MsgTheta))
        ELSE Delegate(<< <<"DISTRIBUTIONNAME", Str("POISSON")>>,
                         <<"THETA", theta.val>> >>)

student_t(a) ==
    LET dof == arg("dof", a.dof, "float", FALSE)
        bad == Le(dof.val, Num(0))
    IN  IF ~dof.ok THEN Raise(dof.err)
        ELSE IF bad = "raise" THEN Raise(TypeError)
        ELSE IF bad = "True" THEN Raise(ValueError(MsgDof))
        ELSE Delegate(<< <<"DISTRIBUTIONNAME", Str("STUDENT_T")>>,
                         <<"DEGREES_OF_FREEDOM", dof.val>> >>)

MsgUniform == "Value of low should be lower than high."

\* uniform with `low > high` in place of `low >= high`
uniform_strict(a) ==
    LET low == arg("low", a.low, "float", FALSE)
        high == arg("high", a.high, "float", FALSE)
        f1 == FirstFailure(<<low, high>>)
        bad == Gt(low.val, high.val)
    IN  IF f1 # NoErr THEN Raise(f1)
        ELSE IF bad = "raise" THEN Raise(TypeError)
        ELSE IF bad = "True" THEN Raise(ValueError(MsgUniform))
        ELSE Delegate(<< <<"DISTRIBUTIONNAME", Str("UNIFORM")>>,
                         <<"MIN", low.val>>, <<"MAX", high.val>> >>)

uniform(a) ==
    LET low == arg("low", a.low, "float", FALSE)
        high == arg("high", a.high, "float", FALSE)
        f1 == FirstFailure(<<low, high>>)
        bad == Ge(low.val, high.val)
    IN  IF f1 # NoErr THEN Raise(f1)
        ELSE IF bad = "raise" THEN Raise(TypeError)
        ELSE IF bad = "True" THEN Raise(ValueError(MsgUniform))
        ELSE Delegate(<< <<"DISTRIBUTIONNAME", Str("UNIFORM")>>,
                         <<"MIN", low.val>>, <<"MAX", high.val>> >>)

weibull(a) ==
    LET shape == arg("shape", a.shape, "float", FALSE)
        scale == arg("scale", a.scale, "float", FALSE)
        f1 == FirstFailure(<<shape, scale>>)
        bad == Or(Le(shape.val, Num(0)), Le(scale.val, Num(0)))
    IN  IF f1 # NoErr THEN Raise(f1)
        ELSE IF bad = "raise" THEN Raise(TypeError)
        ELSE IF bad = "True" THEN Raise(ValueError(MsgShapeScale))
        ELSE Delegate(<< <<"DISTRIBUTIONNAME", Str("WEIBULL")>>,
                         <<"SHAPE", shape.val>>, <<"SCALE", scale.val>> >>)

\* the body of a univariate entry point, by name
EntryPointBody(fn, a) ==
    CASE fn = "bernoulli" -> bernoulli(a)
      [] fn = "beta" -> beta(a)
      [] fn = "binomial" -> binomial(a)
      [] fn = "cauchy" -> cauchy(a)
      [] fn = "chi_squared" -> chi_squared(a)
      [] fn = "exponential" -> exponential(a)
      [] fn = "gumbel" -> gumbel(a)
      [] fn = "f" -> f(a)
      [] fn = "gamma" -> gamma(a)
      [] fn = "geometric" -> geometric(a)
      [] fn = "lognormal" -> lognormal(a)
      [] fn = "negative_binomial" -> negative_binomial(a)
      [] fn = "normal" -> normal(a)
      [] fn = "pert" -> pert(a)
      [] fn = "poisson" -> poisson(a)
      [] fn = "student_t" -> student_t(a)
      [] fn = "uniform" -> uniform(a)
      [] fn = "weibull" -> weibull(a)

\* the argument sets the calls are drawn from
Args(fn) ==
    CASE fn \in {"bernoulli", "geometric"} -> [p : ParamVals]
      [] fn = "beta" -> [a : ParamVals, b : ParamVals]
      [] fn \in {"binomial", "negative_binomial"} -> [n : ParamVals, p : ParamVals]
      [] fn \in {"cauchy", "gumbel"} -> [location : ParamVals, scale : ParamVals]
      [] fn \in {"chi_squared", "student_t"} -> [dof : ParamVals]
      [] fn = "exponential" -> [lamb : ParamVals]
      [] fn = "f" -> [dof1 : ParamVals, dof2 : ParamVals]
      [] fn \in {"gamma", "weibull"} -> [shape : ParamVals, scale : ParamVals]
      [] fn = "lognormal" -> [mean : ParamVals, sigma : ParamVals]
      [] fn = "normal" -> [mean : ParamVals, sigma : ParamVals, variance : ParamVals]
      [] fn = "pert" -> [minimum : ParamVals, mode : ParamVals,
                         maximum : ParamVals, scale : ParamVals]
      [] fn = "poisson" -> [theta : ParamVals]
      [] fn = "uniform" -> [low : ParamVals, high : ParamVals]

CommonArgs == [num_random : NumRandomVals, seed : SeedVals, thread_ratio : ThreadVals]

\* ------------------------------------------------------------ table names
\* str(uuid.uuid1()).replace('-', '_').upper() of the n-th identifier drawn
unique_id(n) == "UUID_" \o ToString(n)

Roles == <<"DISTRIBUTION_PARAMETER", "PARAMETER", "RESULT">>

\* '#{}_{}_{}'.format(dist_name, tbl_name, unique_id)
rds_table(dist_name, tbl_name, uid) ==
    "#" \o dist_name \o "_" \o tbl_name \o "_" \o uid

\* '#MULTINOMIAL_{}_{}'.format(tbl_name, unique_id)
multinomial_table(tbl_name, uid) == "#MULTINOMIAL_" \o tbl_name \o "_" \o uid

\* the names of mcmc written as _rds and multinomial write theirs
mcmc_table_no_tbl(name, uid) == "#PAL_MCMC_" \o name \o "_" \o uid

\* "#PAL_MCMC_{}_TBL_{}".format(name, unique_id)
mcmc_table(name, uid) == "#PAL_MCMC_" \o name \o "_TBL_" \o uid

\* dict(dist_params)[key]
RECURSIVE dict_get(_, _)
dict_get(pairs, key) ==
    IF Head(pairs)[1] = key /\ ~(\E i \in 2..Len(pairs) : pairs[i][1] = key)
    THEN Head(pairs)[2] ELSE dict_get(Tail(pairs), key)

MsgNumRandom == "Parameter num_random should be greater than or equal to zero."

\* what a call has prepared when it reaches its try block
NoPrep == [ok |-> FALSE, err |-> NoErr, tables |-> <<>>, spec |-> <<>>,
           data |-> <<>>, params |-> <<>>, proc |-> ""]

\* _rds without the check of num_random
rds_prepare_unchecked(dist_params, g, uid) ==
    LET num_random == arg("num_random", g.num_random, "int", FALSE)
        seed == arg("seed", g.seed, "int", FALSE)
        thread_ratio == arg("thread_ratio", g.thread_ratio, "float", FALSE)
        f1 == FirstFailure(<<num_random, seed, thread_ratio>>)
        dist_name == dict_get(dist_params, "DISTRIBUTIONNAME").v
    IN  IF f1 # NoErr THEN [NoPrep EXCEPT !.err = f1]
        ELSE [ok |-> TRUE, err |-> NoErr,
              tables |-> [i \in 1..3 |-> rds_table(dist_name, Roles[i], uid)],
              spec |-> << <<"NAME", "NVARCHAR(100)">>, <<"VALUE", "NVARCHAR(100)">> >>,
              data |-> dist_params,
              params |-> << <<"NUM_RANDOM", num_random.val, None, None>>,
                            <<"SEED", seed.val, None, None>>,
                            <<"THREAD_RATIO", None, thread_ratio.val, None>> >>,
              proc |-> "PAL_DISTRIBUTION_RANDOM"]

\* _rds with the check of num_random applied to seed as well
rds_prepare_seed_checked(dist_params, g, uid) ==
    LET num_random == arg("num_random", g.num_random, "int", FALSE)
        seed == arg("seed", g.seed, "int", FALSE)
        thread_ratio == arg("thread_ratio", g.thread_ratio, "float", FALSE)
        f1 == FirstFailure(<<num_random, seed, thread_ratio>>)
        bad == Or(Lt(num_random.val, Num(0)),
                  IF seed.val = None THEN "False" ELSE Lt(seed.val, Num(0)))
        dist_name == dict_get(dist_params, "DISTRIBUTIONNAME").v
    IN  IF f1 # NoErr THEN [NoPrep EXCEPT !.err = f1]
        ELSE IF bad = "raise" THEN [NoPrep EXCEPT !.err = TypeError]
        ELSE IF bad = "True" THEN [NoPrep EXCEPT !.err = ValueError(MsgNumRandom)]
        ELSE [ok |-> TRUE, err |-> NoErr,
              tables |-> [i \in 1..3 |-> rds_table(dist_name, Roles[i], uid)],
              spec |-> << <<"NAME", "NVARCHAR(100)">>, <<"VALUE", "NVARCHAR(100)">> >>,
              data |-> dist_params,
              params |-> << <<"NUM_RANDOM", num_random.val, None, None>>,
                            <<"SEED", seed.val, None, None>>,
                            <<"THREAD_RATIO", None, thread_ratio.val, None>> >>,
              proc |-> "PAL_DISTRIBUTION_RANDOM"]

\* _rds between require_pal_usable and the try block
rds_prepare(dist_params, g, uid) ==
    LET num_random == arg("num_random", g.num_random, "int", FALSE)
        seed == arg("seed", g.seed, "int", FALSE)
        thread_ratio == arg("thread_ratio", g.thread_ratio, "float", FALSE)
        f1 == FirstFailure(<<num_random, seed, thread_ratio>>)
        bad == Lt(num_random.val, Num(0))
        dist_name == dict_get(dist_params, "DISTRIBUTIONNAME").v
    IN  IF f1 # NoErr THEN [NoPrep EXCEPT !.err = f1]
        ELSE IF bad = "raise" THEN [NoPrep EXCEPT !.err = TypeError]
        ELSE IF bad = "True" THEN [NoPrep EXCEPT !.err = ValueError(MsgNumRandom)]
        ELSE [ok |-> TRUE, err |-> NoErr,
              tables |-> [i \in 1..3 |-> rds_table(dist_name, Roles[i], uid)],
              spec |-> << <<"NAME", "NVARCHAR(100)">>, <<"VALUE", "NVARCHAR(100)">> >>,
              data |-> dist_params,
              params |-> << <<"NUM_RANDOM", num_random.val, None, None>>,
                            <<"SEED", seed.val, None, None>>,
                            <<"THREAD_RATIO", None, thread_ratio.val, None>> >>,
              proc |-> "PAL_DISTRIBUTION_RANDOM"]

MsgPvals == "Parameter pvals should be a tuple of non-negative floats and ints."

\* the columns numbered from 0: 'P{}'.format(str(i))
dist_param_spec_from_zero(pvals) ==
    << <<"TRIALS", "NVARCHAR(100)">> >> \o
    [i \in 1..Len(pvals) |-> <<"P" \o ToString(i - 1), "DOUBLE">>]

\* dist_param_spec = [('TRIALS', NVARCHAR(100))] extended by
\* ('P{}'.format(str(i + 1)), DOUBLE) for i in range(len(pvals))
dist_param_spec(pvals) ==
    << <<"TRIALS", "NVARCHAR(100)">> >> \o
    [i \in 1..Len(pvals) |-> <<"P" \o ToString(i), "DOUBLE">>]

\* multinomial between require_pal_usable and the try block
multinomial_prepare(a, g, uid) ==
    LET n == arg("n", a.n, "int", TRUE)
        pvals == arg("pvals", a.pvals, "tuple", TRUE)
        f1 == FirstFailure(<<n, pvals>>)
        badp == any([i \in 1..Len(pvals.val.v) |->
                       Or(IF IsNumber(pvals.val.v[i]) THEN "False" ELSE "True",
                          Lt(pvals.val.v[i], Num(0)))])
        num_random == arg("num_random", g.num_random, "int", FALSE)
        seed == arg("seed", g.seed, "int", FALSE)
        thread_ratio == arg("thread_ratio", g.thread_ratio, "float", FALSE)
        f2 == FirstFailure(<<num_random, seed, thread_ratio>>)
        bad == Lt(num_random.val, Num(0))
    IN  IF f1 # NoErr THEN [NoPrep EXCEPT !.err = f1]
        ELSE IF badp = "True" THEN [NoPrep EXCEPT !.err = ValueError(MsgPvals)]
        ELSE IF f2 # NoErr THEN [NoPrep EXCEPT !.err = f2]
        ELSE IF bad = "raise" THEN [NoPrep EXCEPT !.err = TypeError]
        ELSE IF bad = "True" THEN [NoPrep EXCEPT !.err = ValueError(MsgNumRandom)]
        ELSE [ok |-> TRUE, err |-> NoErr,
              tables |-> [i \in 1..3 |-> multinomial_table(Roles[i], uid)],
              spec |-> dist_param_spec(pvals.val.v),
              data |-> << <<n.val>> \o pvals.val.v >>,
              params |-> << <<"DISTRIBUTIONNAME", None, None, Str("MULTINOMIAL")>>,
                            <<"NUM_RANDOM", num_random.val, None, None>>,
                            <<"SEED", seed.val, None, None>>,
                            <<"THREAD_RATIO", None, thread_ratio.val, None>> >>,
              proc |-> "PAL_DISTRIBUTION_RANDOM_MULTIVARIATE"]

\* the pvals tuples of at most MaxCats categories
PvalTuples == UNION {[1..k -> PvalVals \cup {None}] : k \in 1..MaxCats}
MultinomialArgs == [n : TrialVals, pvals : {Tuple(s) : s \in PvalTuples} \cup {None}]

\* ------------------------------------------------------------------- mcmc
\* dstr_param_lst, in the order of the source
dstr_param_lst ==
    << <<"normal", <<"mu", "sigma">> >>,
       <<"skew_normal", <<"xi", "omega", "alpha">> >>,
       <<"student_t", <<"nu", "mu", "sigma">> >>,
       <<"cauchy", <<"mu", "sigma">> >>,
       <<"laplace", <<"mu", "sigma">> >>,
       <<"logistic", <<"mu", "sigma">> >>,
       <<"gumbel", <<"mu", "beta">> >>,
       <<"exponential", <<"beta">> >>,
       <<"chi_square", <<"nu">> >>,
       <<"invchi_square", <<"nu">> >>,
       <<"weibull", <<"alpha", "sigma">> >>,
       <<"frechet", <<"alpha", "sigma">> >>,
       <<"rayleigh", <<"sigma">> >>,
       <<"multinormal", <<"mu", "sigma">> >>,
       <<"multinormalprec", <<"mu", "omega">> >>,
       <<"multinormalcholesky", <<"mu", "L">> >>,
       <<"mutistudent_t", <<"nu", "mu", "sigma">> >>,
       <<"dirichlet", <<"alpha">> >>,
       <<"lognormal", <<"mu", "sigma">> >>,
       <<"invgamma", <<"alpha", "beta">> >>,
       <<"beta", <<"alpha", "beta">> >>,
       <<"pareto", <<"y_min", "alpha">> >>,
       <<"lomax", <<"lambda", "alpha">> >> >>

McmcKeys == {dstr_param_lst[i][1] : i \in 1..Len(dstr_param_lst)}

\* the names the docstring of mcmc lists as the options of `distribution`
McmcDocumented ==
    {"normal", "skew_normal", "student_t", "cauchy", "laplace", "logistic",
     "gumbel", "exponential", "chi_square", "invchi_square", "gamma", "weibull",
     "frechet", "rayleigh", "multinormal", "multinormalprec",
     "multinormalcholesky", "multistudent_t", "dirichlet", "lognormal",
     "invgamma", "beta", "pareto", "lomax"}

\* names a caller may pass as `distribution`: the keys, the documented
\* names, and a name that is no distribution
McmcNames == McmcKeys \cup McmcDocumented \cup {"triangular"}

\* 'multi' in distribution
HasMulti(d) == d \in {"multinormal", "multinormalprec", "multinormalcholesky",
                      "multistudent_t"}
\* 'diri' in distribution
HasDiri(d) == d = "dirichlet"
\* 'normalprec' in distribution
HasNormalprec(d) == d = "multinormalprec"

\* the key left as the parameter is written
upper_as_written(param) == param

\* param.upper()
upper(param) ==
    CASE param = "mu" -> "MU" [] param = "sigma" -> "SIGMA" [] param = "xi" -> "XI"
      [] param = "alpha" -> "ALPHA" [] param = "beta" -> "BETA" [] param = "nu" -> "NU"
      [] param = "omega" -> "OMEGA" [] param = "L" -> "L" [] param = "y_min" -> "Y_MIN"
      [] param = "lambda" -> "LAMBDA"

\* x.reshape([-1]) of the elements of an array or of a nested list
RECURSIVE reshape(_)
reshape(s) ==
    IF s = <<>> THEN <<>>
    ELSE (IF Head(s).t = "list" THEN reshape(Head(s).v) ELSE <<Head(s)>>)
         \o reshape(Tail(s))

\* 1.0/scale, exact for the scales drawn here (0.5, 1)
Reciprocal(x) == Half(4 \div x.v)

ZeroDivisionError == [type |-> "ZeroDivisionError", msg |-> "float division by zero", nargs |-> 1]
OperandTypeError == [type |-> "TypeError", msg |-> "unsupported operand type(s) for /", nargs |-> 1]

\* if isinstance(x, np.ndarray): x = list(x.reshape([-1]))
from_array(x) == IF x.t = "ndarray" THEN List(reshape(x.v)) ELSE x

\* ... elif isinstance(x, list) and isinstance(x[0], list):
\*         x = list(np.array(x).reshape([-1]))
from_array_or_nested(x) ==
    IF x.t = "ndarray" THEN List(reshape(x.v))
    ELSE IF x.t = "list" /\ x.v[1].t = "list" THEN List(reshape(x.v))
    ELSE x

\* the keys of param_value, in the order of the source
ParamValueKeys == <<"mu", "sigma", "xi", "alpha", "beta", "nu", "omega", "L",
                    "y_min", "lambda">>

\* distr_param built from every key of param_value
distr_param_every_key(required, param_value) ==
    [i \in 1..Len(ParamValueKeys) |->
        <<upper(ParamValueKeys[i]),
          IF param_value[ParamValueKeys[i]].t = "list"
          THEN param_value[ParamValueKeys[i]]
          ELSE List(<<param_value[ParamValueKeys[i]]>>)>>]

\* distr_param = {param.upper(): [v] if not isinstance(v, list) else v
\*                for param in dstr_param_lst[distribution]}
distr_param(required, param_value) ==
    [i \in 1..Len(required) |->
        <<upper(required[i]),
          IF param_value[required[i]].t = "list"
          THEN param_value[required[i]]
          ELSE List(<<param_value[required[i]]>>)>>]

\* param_rows with the adaption rows sent only when adapt is True
param_rows_adapt_true(rows, adapt, extend_rows) ==
    rows \o (IF adapt = Bool(TRUE) THEN extend_rows ELSE <<>>)

\* if adapt is not False: param_rows.extend(extend_rows)
param_rows(rows, adapt, extend_rows) ==
    rows \o (IF adapt # Bool(FALSE) THEN extend_rows ELSE <<>>)

\* mcmc between require_pal_usable and the try block
mcmc_prepare(a, uid) ==
    LET d == a.distribution
        distribution == [ok |-> d \in McmcKeys, val |-> d, err |-> ArgError("distribution")]
        number == "int_or_float"
        location == arg("location", a.location, number, FALSE)
        shape == arg("shape", a.shape, number, FALSE)
        scale == arg("scale", a.scale, number, FALSE)
        dof == arg("dof", a.dof, number, FALSE)
        chain_iter == arg("chain_iter", a.chain_iter, "int", FALSE)
        random_state == arg("random_state", a.random_state, "int", FALSE)
        init_radius == arg("init_radius", a.init_radius, "float", FALSE)
        adapt == arg("adapt", a.adapt, "bool", FALSE)
        warmup == arg("warmup", a.warmup, "int", FALSE)
        thin == arg("thin", a.thin, "int", FALSE)
        adapt_gamma == arg("adapt_gamma", a.adapt_gamma, "float", FALSE)
        adapt_delta == arg("adapt_delta", a.adapt_delta, "float", FALSE)
        adapt_kappa == arg("adapt_kappa", a.adapt_kappa, "float", FALSE)
        adapt_offset == arg("adapt_offset", a.adapt_offset, "float", FALSE)
        adapt_init_buffer == arg("adapt_init_buffer", a.adapt_init_buffer, "int", FALSE)
        adapt_term_buffer == arg("adapt_term_buffer", a.adapt_term_buffer, "int", FALSE)
        adapt_window == arg("adapt_window", a.adapt_window, "int", FALSE)
        stepsize == arg("stepsize", a.stepsize, "float", FALSE)
        stepsize_jitter == arg("stepsize_jitter", a.stepsize_jitter, "float", FALSE)
        max_depth == arg("max_depth", a.max_depth, "int", FALSE)
        mu0 == arg("mu", a.mu, IF HasMulti(d) THEN "list" ELSE number,
                   HasMulti(d) \/ d = "lognormal")
        mu1 == from_array(mu0.val)
        mu == IF mu1 = None THEN location.val ELSE mu1
        sigma0 == arg("sigma", a.sigma,
                      IF d \in {"multinormal", "multistudent_t"} THEN "list" ELSE number,
                      d \in {"multinormal", "multistudent_t"})
        sigma1 == from_array(sigma0.val)
        sigma == IF sigma1 = None THEN scale.val ELSE sigma1
        xi0 == arg("xi", a.xi, "float", FALSE)
        xi == IF xi0.val = None THEN location.val ELSE xi0.val
        alpha0 == arg("alpha", a.alpha, IF d = "dirichlet" THEN "list" ELSE number,
                      d \in {"dirichlet", "weibull", "frechet", "beta", "pareto",
                             "lomax", "invgamma"})
        alpha1 == from_array(alpha0.val)
        alpha == IF alpha1 = None THEN shape.val ELSE alpha1
        beta0 == arg("beta", a.beta, number, d \in {"invgamma", "beta"})
        beta_ == IF beta0.val # None THEN beta0.val
                 ELSE IF d = "gumbel" THEN scale.val ELSE Reciprocal(scale.val)
        nu0 == arg("nu", a.nu, number, d = "invchi_square")
        nu == IF nu0.val = None THEN dof.val ELSE nu0.val
        omega0 == arg("omega", a.omega, IF HasNormalprec(d) THEN "list" ELSE "float",
                      d = "multinormalprec")
        omega == from_array_or_nested(omega0.val)
        L0 == arg("L", a.L, "list", d = "multinormalcholesky")
        L == from_array_or_nested(L0.val)
        y_min == arg("y_min", a.y_min, "float", d = "pareto")
        lambda_ == arg("lambda_", a.lambda_, "float", d = "lomax")
        dim == IF alpha1.t = "list" /\ HasDiri(d) THEN Num(Len(alpha1.v))
               ELSE IF mu1.t = "list" /\ HasMulti(d) THEN Num(Len(mu1.v))
               ELSE Num(1)
        param_value == [param \in {ParamValueKeys[i] : i \in 1..Len(ParamValueKeys)} |->
            CASE param = "mu" -> mu [] param = "sigma" -> sigma [] param = "xi" -> xi
              [] param = "alpha" -> alpha [] param = "beta" -> beta_ [] param = "nu" -> nu
              [] param = "omega" -> omega [] param = "L" -> L
              [] param = "y_min" -> y_min.val [] param = "lambda" -> lambda_.val]
        required == dict_get(dstr_param_lst, d)
        extend_rows == << <<"ADAPT_GAMMA", None, adapt_gamma.val, None>>,
                          <<"ADAPT_DELTA", None, adapt_delta.val, None>>,
                          <<"ADAPT_KAPPA", None, adapt_kappa.val, None>>,
                          <<"ADAPT_T0", None, adapt_offset.val, None>>,
                          <<"ADAPT_INIT_BUFFER", adapt_init_buffer.val, None, None>>,
                          <<"ADAPT_TERM_BUFFER", adapt_term_buffer.val, None, None>>,
                          <<"ADAPT_WINDOW", adapt_window.val, None, None>> >>
        rows == << <<"DISTRIBUTION_NAME", None, None, Str(d)>>,
                         <<"DISTRIBUTION_PARAM", None, None,
                           Str(distr_param(required, param_value))>>,
                         <<"DIMENSION", dim, None, None>>,
                         <<"ITER", chain_iter.val, None, None>>,
                         <<"RANDOM_SEED", random_state.val, None, None>>,
                         <<"INIT_RADIUS", None, init_radius.val, None>>,
                         <<"ADAPT_ENGAGED", adapt.val, None, None>>,
                         <<"WARMUP", warmup.val, None, None>>,
                         <<"THIN", thin.val, None, None>>,
                         <<"STEPSIZE", stepsize.val, None, None>>,
                         <<"STEPSIZE_JITTER", stepsize_jitter.val, None, None>>,
                         <<"MAX_TREEDEPTH", max_depth.val, None, None>> >>
        f1 == FirstFailure(<<distribution, location, shape, scale, dof, chain_iter,
                             random_state, init_radius, adapt, warmup, thin,
                             adapt_gamma, adapt_delta, adapt_kappa, adapt_offset,
                             adapt_init_buffer, adapt_term_buffer, adapt_window,
                             stepsize, stepsize_jitter, max_depth,
                             mu0, sigma0, xi0, alpha0, beta0>>)
        f2 == FirstFailure(<<nu0, omega0, L0, y_min, lambda_>>)
        divides == beta0.val = None /\ d # "gumbel"
    IN  IF f1 # NoErr THEN [NoPrep EXCEPT !.err = f1]
        ELSE IF divides /\ scale.val = None THEN [NoPrep EXCEPT !.err = OperandTypeError]
        ELSE IF divides /\ scale.val = Num(0) THEN [NoPrep EXCEPT !.err = ZeroDivisionError]
        ELSE IF f2 # NoErr THEN [NoPrep EXCEPT !.err = f2]
        ELSE [ok |-> TRUE, err |-> NoErr,
              tables |-> << mcmc_table("PARAMETER", uid), mcmc_table("RESULT", uid) >>,
              spec |-> <<>>, data |-> <<>>,
              params |-> param_rows(rows, adapt.val, extend_rows),
              proc |-> "PAL_MCMC"]

McmcDefaults ==
    [distribution |-> "normal",
     location |-> Num(0), scale |-> Num(1), shape |-> Num(1), dof |-> Num(1),
     chain_iter |-> None, random_state |-> None, init_radius |-> None,
     adapt |-> None, warmup |-> None, thin |-> None, adapt_gamma |-> None,
     adapt_delta |-> None, adapt_kappa |-> None, adapt_offset |-> None,
     adapt_init_buffer |-> None, adapt_term_buffer |-> None,
     adapt_window |-> None, stepsize |-> None, stepsize_jitter |-> None,
     max_depth |-> None, mu |-> None, sigma |-> None, xi |-> None,
     alpha |-> None, beta |-> None, nu |-> None, omega |-> None, L |-> None,
     y_min |-> None, lambda_ |-> None]

\* the distribution parameters and their deprecated aliases
McmcParams == {"location", "scale", "shape", "dof", "mu", "sigma", "xi", "alpha",
               "beta", "nu", "omega", "L", "y_min", "lambda_"}
\* a vector and a matrix, each as a list and as an array
Vector == <<Num(0), Num(1)>>
Matrix == <<List(<<Num(1), Num(0)>>), List(<<Num(0), Num(1)>>)>>
McmcVals == {None, Num(0), Half(1), Num(1), List(Vector), List(Matrix),
             Ndarray(Vector), Ndarray(Matrix)}

\* a valid value for a named parameter of distribution d
McmcValid(d, param) ==
    IF \/ param \in {"mu", "sigma"} /\ d \in {"multinormal"}
       \/ param = "mu" /\ HasMulti(d)
       \/ param \in {"omega", "L"} /\ HasMulti(d)
       \/ param = "alpha" /\ d = "dirichlet"
    THEN List(<<Num(0), Num(1)>>) ELSE Num(1)

\* the argument name of a listed parameter
ArgName(param) == IF param = "lambda" THEN "lambda_" ELSE param

\* the call of distribution d that names every parameter d lists
RECURSIVE Supply(_, _, _)
Supply(a, d, params) ==
    IF params = <<>> THEN a
    ELSE Supply([a EXCEPT ![ArgName(Head(params))] = McmcValid(d, Head(params))],
                d, Tail(params))
McmcNamed(d) ==
    IF d \in McmcKeys
    THEN Supply([McmcDefaults EXCEPT !.distribution = d], d, dict_get(dstr_param_lst, d))
    ELSE [McmcDefaults EXCEPT !.distribution = d]

\* the calls of mcmc drawn: for each distribution name, the call with only
\* default arguments and the call naming every listed parameter, each as it
\* is and with any one argument changed
McmcDistributionArgs ==
    {[base EXCEPT ![p1] = v1] :
        base \in UNION {{[McmcDefaults EXCEPT !.distribution = d], McmcNamed(d)} :
                          d \in McmcNames},
        p1 \in McmcParams, v1 \in McmcVals}

\* the calls of mcmc that set sampler arguments, the rest left at its default
McmcTunedArgs ==
    {[McmcDefaults EXCEPT !.adapt = ad, !.adapt_gamma = g, !.adapt_window = w,
                          !.stepsize = st, !.init_radius = r, !.chain_iter = it] :
        ad \in {None, Bool(TRUE), Bool(FALSE)}, g \in {None, Half(1)},
        w \in {None, Num(1)}, st \in {None, Half(1)}, r \in {None, Half(1)},
        it \in {None, Num(1)}}

McmcArgs == McmcDistributionArgs \cup McmcTunedArgs

\* ------------------------------------------------------------------ state
VARIABLES
    pc,           \* where each call stands
    fn,           \* the entry point each call entered
    args,         \* its distribution arguments
    common,       \* its num_random, seed and thread_ratio
    dist_params,  \* the dist_param list a univariate entry point passes to _rds
    prep,         \* table names, table data and parameter rows of the call
    exc,          \* the exception caught by the try block of the call
    result,       \* how the call ended: a handle, or the exception raised
    events,       \* every use of conn_context and of logger, in order
    db,           \* the temporary tables that exist in the session
    clock,        \* the count of identifiers uuid.uuid1() has handed out
    pyodbc        \* whether `import pyodbc` succeeded

vars == <<pc, fn, args, common, dist_params, prep, exc, result, events, db,
          clock, pyodbc>>

NoArgs == [none |-> TRUE]
NoResult == [kind |-> "none", tbl |-> "", err |-> NoErr]
Handle(tbl) == [kind |-> "handle", tbl |-> tbl, err |-> NoErr]
Raised(e) == [kind |-> "raised", tbl |-> "", err |-> e]

Event(c, op, name, data) == [call |-> c, op |-> op, name |-> name, data |-> data]

\* the uses of conn_context among the events
ConnOps == {"require_pal_usable", "create", "table", "call_pal", "drop"}

Init ==
    /\ pc = [c \in Calls |-> "idle"]
    /\ fn = [c \in Calls |-> "none"]
    /\ args = [c \in Calls |-> NoArgs]
    /\ common = [c \in Calls |-> NoArgs]
    /\ dist_params = [c \in Calls |-> <<>>]
    /\ prep = [c \in Calls |-> NoPrep]
    /\ exc = [c \in Calls |-> NoErr]
    /\ result = [c \in Calls |-> NoResult]
    /\ events = <<>>
    /\ db = {}
    /\ clock = 0
    /\ pyodbc \in BOOLEAN

\* a caller enters one of the 18 univariate entry points
CallUnivariate(c) ==
    /\ pc[c] = "idle"
    /\ \E name \in UnivariateFns : \E a \in Args(name) : \E g \in CommonArgs :
         /\ fn' = [fn EXCEPT ![c] = name]
         /\ args' = [args EXCEPT ![c] = a]
         /\ common' = [common EXCEPT ![c] = g]
    /\ pc' = [pc EXCEPT ![c] = "entry"]
    /\ UNCHANGED <<dist_params, prep, exc, result, events, db, clock, pyodbc>>

\* a caller enters multinomial
CallMultinomial(c) ==
    /\ pc[c] = "idle"
    /\ \E a \in MultinomialArgs : \E g \in CommonArgs :
         /\ args' = [args EXCEPT ![c] = a]
         /\ common' = [common EXCEPT ![c] = g]
    /\ fn' = [fn EXCEPT ![c] = "multinomial"]
    /\ pc' = [pc EXCEPT ![c] = "usable"]
    /\ UNCHANGED <<dist_params, prep, exc, result, events, db, clock, pyodbc>>

\* a caller enters mcmc
CallMcmc(c) ==
    /\ pc[c] = "idle"
    /\ \E a \in McmcArgs : args' = [args EXCEPT ![c] = a]
    /\ fn' = [fn EXCEPT ![c] = "mcmc"]
    /\ pc' = [pc EXCEPT ![c] = "usable"]
    /\ UNCHANGED <<common, dist_params, prep, exc, result, events, db, clock, pyodbc>>

\* an entry point that checks the PAL installation before its own arguments
EntryPoint_pal_first(c) ==
    /\ pc[c] = "entry"
    /\ LET r == EntryPointBody(fn[c], args[c])
       IN  IF r.ok
           THEN /\ dist_params' = [dist_params EXCEPT ![c] = r.dist_param]
                /\ pc' = [pc EXCEPT ![c] = "usable"]
                /\ UNCHANGED result
           ELSE /\ result' = [result EXCEPT ![c] = Raised(r.err)]
                /\ pc' = [pc EXCEPT ![c] = "done"]
                /\ UNCHANGED dist_params
    /\ events' = Append(events, Event(c, "require_pal_usable", "", <<>>))
    /\ UNCHANGED <<fn, args, common, prep, exc, db, clock, pyodbc>>

\* the body of a univariate entry point: it raises, or calls _rds
EntryPoint(c) ==
    /\ pc[c] = "entry"
    /\ LET r == EntryPointBody(fn[c], args[c])
       IN  IF r.ok
           THEN /\ dist_params' = [dist_params EXCEPT ![c] = r.dist_param]
                /\ pc' = [pc EXCEPT ![c] = "usable"]
                /\ UNCHANGED result
           ELSE /\ result' = [result EXCEPT ![c] = Raised(r.err)]
                /\ pc' = [pc EXCEPT ![c] = "done"]
                /\ UNCHANGED dist_params
    /\ UNCHANGED <<fn, args, common, prep, exc, events, db, clock, pyodbc>>

\* require_pal_usable(conn_context), the first statement of _rds, multinomial
\* and mcmc
RequirePalUsable(c) ==
    /\ pc[c] = "usable"
    /\ events' = Append(events, Event(c, "require_pal_usable", "", <<>>))
    /\ pc' = [pc EXCEPT ![c] = "prepare"]
    /\ UNCHANGED <<fn, args, common, dist_params, prep, exc, result, db, clock, pyodbc>>

\* the statements before the try block, with an identifier drawn once for
\* the process instead of once for the call
Prepare_shared_id(c) ==
    /\ pc[c] = "prepare"
    /\ LET uid == unique_id(1)
           r == CASE fn[c] = "multinomial" -> multinomial_prepare(args[c], common[c], uid)
                  [] fn[c] = "mcmc" -> mcmc_prepare(args[c], uid)
                  [] OTHER -> rds_prepare(dist_params[c], common[c], uid)
       IN  IF r.ok
           THEN /\ prep' = [prep EXCEPT ![c] = r]
                /\ clock' = clock + 1
                /\ pc' = [pc EXCEPT ![c] = IF fn[c] = "mcmc" THEN "invoke" ELSE "create"]
                /\ UNCHANGED result
           ELSE /\ result' = [result EXCEPT ![c] = Raised(r.err)]
                /\ pc' = [pc EXCEPT ![c] = "done"]
                /\ UNCHANGED <<prep, clock>>
    /\ UNCHANGED <<fn, args, common, dist_params, exc, events, db, pyodbc>>

\* the statements between require_pal_usable and the try block: the checks,
\* the fresh identifier, the table names and the rows
Prepare(c) ==
    /\ pc[c] = "prepare"
    /\ LET uid == unique_id(clock + 1)
           r == CASE fn[c] = "multinomial" -> multinomial_prepare(args[c], common[c], uid)
                  [] fn[c] = "mcmc" -> mcmc_prepare(args[c], uid)
                  [] OTHER -> rds_prepare(dist_params[c], common[c], uid)
       IN  IF r.ok
           THEN /\ prep' = [prep EXCEPT ![c] = r]
                /\ clock' = clock + 1
                /\ pc' = [pc EXCEPT ![c] = IF fn[c] = "mcmc" THEN "invoke" ELSE "create"]
                /\ UNCHANGED result
           ELSE /\ result' = [result EXCEPT ![c] = Raised(r.err)]
                /\ pc' = [pc EXCEPT ![c] = "done"]
                /\ UNCHANGED <<prep, clock>>
    /\ UNCHANGED <<fn, args, common, dist_params, exc, events, db, pyodbc>>

\* the exceptions the connection can raise out of create and call_pal: an
\* error of either driver, with a short or a long args tuple, or anything else
Raisable(site) ==
    {[type |-> "dbapi.Error", msg |-> site, nargs |-> 2]}
    \cup (IF pyodbc THEN {[type |-> "pyodbc.Error", msg |-> site, nargs |-> n] : n \in {1, 2}}
          ELSE {})
    \cup {[type |-> "Exception", msg |-> site, nargs |-> 1]}

\* create(conn_context, Table(dist_param_tbl, dist_param_spec).with_data(...))
Create(c) ==
    /\ pc[c] = "create"
    /\ events' = Append(events, Event(c, "create", prep[c].tables[1],
                                      <<prep[c].spec, prep[c].data>>))
    /\ \/ /\ db' = db \cup {prep[c].tables[1]}
          /\ pc' = [pc EXCEPT ![c] = "invoke"]
          /\ UNCHANGED exc
       \/ \E e \in Raisable("create") :
            /\ exc' = [exc EXCEPT ![c] = e]
            /\ pc' = [pc EXCEPT ![c] = "except"]
            /\ UNCHANGED db
    /\ UNCHANGED <<fn, args, common, dist_params, prep, result, clock, pyodbc>>

\* the tables an invocation that succeeds leaves in the session: the
\* ParameterTable it was handed, filled with the rows, and the result table
call_pal_auto_with_hint(param_tbl, res_tbl) == {param_tbl, res_tbl}

\* call_pal_auto_with_hint(conn_context, None, proc, ..., res_tbl)
Invoke(c) ==
    /\ pc[c] = "invoke"
    /\ LET n == Len(prep[c].tables)
           lookup == IF fn[c] = "mcmc" THEN <<>>
                     ELSE <<Event(c, "table", prep[c].tables[1], <<>>)>>
           call == Event(c, "call_pal", prep[c].proc,
                         <<prep[c].tables[n - 1], prep[c].params, prep[c].tables[n]>>)
       IN  /\ events' = events \o lookup \o <<call>>
           /\ \/ /\ db' = db \cup call_pal_auto_with_hint(prep[c].tables[n - 1],
                                                         prep[c].tables[n])
                 /\ pc' = [pc EXCEPT ![c] = "return"]
                 /\ UNCHANGED exc
              \/ \E e \in Raisable("call_pal") :
                   /\ exc' = [exc EXCEPT ![c] = e]
                   /\ pc' = [pc EXCEPT ![c] = "except"]
                   /\ UNCHANGED db
    /\ UNCHANGED <<fn, args, common, dist_params, prep, result, clock, pyodbc>>

NameError == [type |-> "NameError", msg |-> "name 'pyodbc' is not defined", nargs |-> 1]
IndexError == [type |-> "IndexError", msg |-> "tuple index out of range", nargs |-> 1]

\* the except clauses, up to and including the logging
Except(c) ==
    /\ pc[c] = "except"
    /\ LET e == exc[c]
           log == Event(c, "logger.exception", e.msg, <<>>)
       IN  IF e.type = "dbapi.Error"
           THEN /\ events' = Append(events, log)
                /\ pc' = [pc EXCEPT ![c] = "try_drop"]
                /\ UNCHANGED result
           ELSE IF ~pyodbc
           THEN /\ result' = [result EXCEPT ![c] = Raised(NameError)]
                /\ pc' = [pc EXCEPT ![c] = "done"]
                /\ UNCHANGED events
           ELSE IF e.type = "pyodbc.Error" /\ e.nargs >= 2
           THEN /\ events' = Append(events, log)
                /\ pc' = [pc EXCEPT ![c] = "try_drop"]
                /\ UNCHANGED result
           ELSE /\ result' = [result EXCEPT ![c] =
                                Raised(IF e.type = "pyodbc.Error" THEN IndexError ELSE e)]
                /\ pc' = [pc EXCEPT ![c] = "done"]
                /\ UNCHANGED events
    /\ UNCHANGED <<fn, args, common, dist_params, prep, exc, db, clock, pyodbc>>

\* a handler that drops every temporary table of the session
TryDrop_session_tables(c) ==
    /\ pc[c] = "try_drop"
    /\ LET all == db \cup {prep[c].tables[i] : i \in 1..Len(prep[c].tables)}
           order == CHOOSE s \in [1..Cardinality(all) -> all] :
                        \A i, j \in 1..Cardinality(all) : i # j => s[i] # s[j]
       IN  /\ events' = events \o [i \in 1..Cardinality(all) |->
                                     Event(c, "drop", order[i], <<>>)]
           /\ \E failed \in SUBSET all : db' = db \ (all \ failed)
    /\ result' = [result EXCEPT ![c] = Raised(exc[c])]
    /\ pc' = [pc EXCEPT ![c] = "done"]
    /\ UNCHANGED <<fn, args, common, dist_params, prep, exc, clock, pyodbc>>

\* a handler that drops the tables and then falls through to the return
\* statement instead of raising
TryDrop_no_raise(c) ==
    /\ pc[c] = "try_drop"
    /\ events' = events \o [i \in 1..Len(prep[c].tables) |->
                              Event(c, "drop", prep[c].tables[i], <<>>)]
    /\ \E failed \in SUBSET {prep[c].tables[i] : i \in 1..Len(prep[c].tables)} :
         db' = db \ ({prep[c].tables[i] : i \in 1..Len(prep[c].tables)} \ failed)
    /\ pc' = [pc EXCEPT ![c] = "return"]
    /\ UNCHANGED <<fn, args, common, dist_params, prep, exc, result, clock, pyodbc>>

\* try_drop(conn_context, tables) and the bare raise: a drop is attempted
\* for every name; a drop that fails is swallowed
TryDrop(c) ==
    /\ pc[c] = "try_drop"
    /\ events' = events \o [i \in 1..Len(prep[c].tables) |->
                              Event(c, "drop", prep[c].tables[i], <<>>)]
    /\ \E failed \in SUBSET {prep[c].tables[i] : i \in 1..Len(prep[c].tables)} :
         db' = db \ ({prep[c].tables[i] : i \in 1..Len(prep[c].tables)} \ failed)
    /\ result' = [result EXCEPT ![c] = Raised(exc[c])]
    /\ pc' = [pc EXCEPT ![c] = "done"]
    /\ UNCHANGED <<fn, args, common, dist_params, prep, exc, clock, pyodbc>>

\* a return that first drops the two input tables of the call
Return_inputs_dropped(c) ==
    /\ pc[c] = "return"
    /\ LET n == Len(prep[c].tables)
           res_tbl == prep[c].tables[n]
       IN  /\ events' = events \o [i \in 1..(n - 1) |->
                                     Event(c, "drop", prep[c].tables[i], <<>>)]
                                \o <<Event(c, "table", res_tbl, <<>>)>>
           /\ db' = db \ {prep[c].tables[i] : i \in 1..(n - 1)}
           /\ result' = [result EXCEPT ![c] = Handle(res_tbl)]
    /\ pc' = [pc EXCEPT ![c] = "done"]
    /\ UNCHANGED <<fn, args, common, dist_params, prep, exc, clock, pyodbc>>

\* return conn_context.table(res_tbl)
Return(c) ==
    /\ pc[c] = "return"
    /\ LET res_tbl == prep[c].tables[Len(prep[c].tables)]
       IN  /\ events' = Append(events, Event(c, "table", res_tbl, <<>>))
           /\ result' = [result EXCEPT ![c] = Handle(res_tbl)]
    /\ pc' = [pc EXCEPT ![c] = "done"]
    /\ UNCHANGED <<fn, args, common, dist_params, prep, exc, db, clock, pyodbc>>

Step(c) ==
    \/ CallUnivariate(c)
    \/ CallMultinomial(c)
    \/ CallMcmc(c)
    \/ EntryPoint(c)
    \/ RequirePalUsable(c)
    \/ Prepare(c)
    \/ Create(c)
    \/ Invoke(c)
    \/ Except(c)
    \/ TryDrop(c)
    \/ Return(c)

\* one caller
Next == Step(1)

Spec == Init /\ [][Next]_vars

\* ------------------------------------------------------- interleaved calls
\* the calls two interleaved callers make: one accepted call of a univariate
\* entry point, of multinomial and of mcmc
InterleavedCalls ==
    {[fn |-> "bernoulli", args |-> [p |-> Half(1)],
      common |-> [num_random |-> Num(1), seed |-> None, thread_ratio |-> None]],
     [fn |-> "multinomial", args |-> [n |-> Num(1), pvals |-> Tuple(<<Half(1)>>)],
      common |-> [num_random |-> Num(1), seed |-> None, thread_ratio |-> None]],
     [fn |-> "mcmc", args |-> McmcDefaults, common |-> NoArgs]}

\* a caller enters an entry point while another call may be under way
CallInterleaved(c) ==
    /\ pc[c] = "idle"
    /\ \E k \in InterleavedCalls :
         /\ fn' = [fn EXCEPT ![c] = k.fn]
         /\ args' = [args EXCEPT ![c] = k.args]
         /\ common' = [common EXCEPT ![c] = k.common]
         /\ pc' = [pc EXCEPT ![c] = IF k.fn \in UnivariateFns THEN "entry" ELSE "usable"]
    /\ UNCHANGED <<dist_params, prep, exc, result, events, db, clock, pyodbc>>

StepInterleaved(c) ==
    \/ CallInterleaved(c)
    \/ EntryPoint(c)
    \/ RequirePalUsable(c)
    \/ Prepare(c)
    \/ Create(c)
    \/ Invoke(c)
    \/ Except(c)
    \/ TryDrop(c)
    \/ Return(c)

\* two callers on one connection, their steps interleaved in any order
NextInterleaved == \E c \in Calls : StepInterleaved(c)

SpecInterleaved == Init /\ [][NextInterleaved]_vars

\* --------------------------------------------------------------- vocabulary
\* the events of call c that use the connection
ConnUses(c) == SelectSeq(events, LAMBDA e : e.call = c /\ e.op \in ConnOps)
NoConnUse(c) == ConnUses(c) = <<>>
\* no table created, no procedure invoked, no drop attempted by call c
NoTableWork(c) ==
    \A i \in 1..Len(events) :
        events[i].call = c => events[i].op \notin {"create", "call_pal", "drop"}

\* call c has left the body of its entry point (univariate: the statements
\* before `return _rds(...)`)
PastEntry(c) == pc[c] \notin {"idle", "entry"}
\* call c has left the checks that precede its try block
PastChecks(c) == pc[c] \notin {"idle", "entry", "usable", "prepare"}
\* call c reached its try block: the create-and-invoke sequence
ReachedTry(c) == prep[c].ok
\* call c ended with an exception raised before its try block
Rejected(c) == pc[c] = "done" /\ result[c].kind = "raised" /\ ~prep[c].ok
\* ... and that exception was raised by the entry point itself, before _rds
RejectedAtEntry(c) ==
    Rejected(c) /\ fn[c] \in UnivariateFns /\ dist_params[c] = <<>>

\* num_random, seed and thread_ratio as the checks of _rds want them
ValidNumRandom(g) == IsInt(g.num_random) /\ g.num_random.v >= 0
ValidSeed(g) == g.seed = None \/ (IsInt(g.seed) /\ g.seed.v >= 0)
ValidThreadRatio(g) == g.thread_ratio = None \/ IsNumber(g.thread_ratio)

\* n and pvals as the spec wants them: an int, and a tuple of numbers in [0, 1]
ValidTrials(a) == IsInt(a.n)
ValidPvals(a) ==
    /\ a.pvals.t = "tuple"
    /\ \A i \in 1..Len(a.pvals.v) :
          IsNumber(a.pvals.v[i]) /\ a.pvals.v[i].v >= 0 /\ a.pvals.v[i].v <= Num(1).v

\* the entry-point arguments of call c are all numbers
AllNumbers(a) == \A k \in DOMAIN a : IsNumber(a[k])

\* ------------------------------------------------------------------ claims
\* the probability argument of call c is a number outside [0, 1]
BadProbability(c) ==
    /\ fn[c] \in {"bernoulli", "binomial", "geometric", "negative_binomial"}
    /\ IsNumber(args[c].p)
    /\ (args[c].p.v < Num(0).v \/ args[c].p.v > Num(1).v)
    /\ fn[c] = "negative_binomial" =>
          IsNumber(args[c].n) /\ int(args[c].n).v > Num(0).v

\* C1: bernoulli, binomial, geometric and negative_binomial (with a valid n)
\* called with p < 0 or p > 1 end with an invalid-argument error, and the
\* connection has not been used at all when the error is raised.
C1_ProbabilityRejected ==
    \A c \in Calls :
        BadProbability(c) /\ PastEntry(c) =>
            /\ RejectedAtEntry(c)
            /\ IsInvalidArgument(result[c].err)
            /\ NoConnUse(c)

\* a call of negative_binomial with p above 1 has ended
C1_Witness ==
    \E c \in Calls :
        /\ fn[c] = "negative_binomial" /\ BadProbability(c)
        /\ args[c].p.v > Num(1).v
        /\ result[c] = Raised(ValueError(MsgRangeP))

\* C2: multinomial rejects, with an invalid-argument error raised before any
\* table is created, every pvals tuple with an entry below 0 or above 1.
C2_PvalsInUnitInterval ==
    \A c \in Calls :
        /\ fn[c] = "multinomial" /\ ValidTrials(args[c])
        /\ args[c].pvals.t = "tuple"
        /\ \A i \in 1..Len(args[c].pvals.v) : IsNumber(args[c].pvals.v[i])
        /\ ~ValidPvals(args[c])
        /\ ValidNumRandom(common[c])
        /\ PastChecks(c)
        => /\ Rejected(c)
           /\ IsInvalidArgument(result[c].err)
           /\ NoTableWork(c)

\* the scale, shape, rate and standard-deviation arguments of call c
ScaleLike(c) ==
    CASE fn[c] = "beta" -> {args[c].a, args[c].b}
      [] fn[c] \in {"cauchy", "gumbel", "pert"} -> {args[c].scale}
      [] fn[c] \in {"gamma", "weibull"} -> {args[c].shape, args[c].scale}
      [] fn[c] \in {"lognormal", "normal"} -> {args[c].sigma}
      [] fn[c] = "exponential" -> {args[c].lamb}
      [] fn[c] = "poisson" -> {args[c].theta}
      [] OTHER -> {}

\* C3: a univariate entry point called with a scale, shape, rate or
\* standard-deviation argument <= 0 ends with an invalid-argument error, and
\* no table is created and no procedure is invoked.
C3_ScaleLikePositive ==
    \A c \in Calls :
        /\ fn[c] \in UnivariateFns /\ PastEntry(c)
        /\ AllNumbers(args[c])
        /\ \E x \in ScaleLike(c) : x.v <= Num(0).v
        => /\ Rejected(c)
           /\ IsInvalidArgument(result[c].err)
           /\ NoTableWork(c)

\* the rows uniform hands to _rds
UniformRows(a) ==
    << <<"DISTRIBUTIONNAME", Str("UNIFORM")>>, <<"MIN", a.low>>, <<"MAX", a.high>> >>

\* C4: uniform ends with an invalid-argument error exactly when low >= high,
\* raised before any table is created; for low < high and a valid num_random
\* it proceeds to the create-and-invoke sequence with rows MIN=low, MAX=high.
C4_UniformBounds ==
    \A c \in Calls :
        fn[c] = "uniform" /\ AllNumbers(args[c]) /\ PastEntry(c) =>
            IF args[c].low.v >= args[c].high.v
            THEN /\ RejectedAtEntry(c)
                 /\ result[c].err = ValueError(MsgUniform)
                 /\ NoConnUse(c)
            ELSE /\ ~RejectedAtEntry(c)
                 /\ dist_params[c] = UniformRows(args[c])
                 /\ ValidNumRandom(common[c]) /\ PastChecks(c) =>
                       /\ ReachedTry(c)
                       /\ prep[c].data = UniformRows(args[c])
                       /\ \A i \in 1..Len(events) :
                             events[i].call = c /\ events[i].op = "create" =>
                                 events[i].data[2] = UniformRows(args[c])

\* uniform called with low = high has been refused
C4_Witness ==
    \E c \in Calls :
        /\ fn[c] = "uniform" /\ AllNumbers(args[c])
        /\ args[c].low = args[c].high
        /\ result[c] = Raised(ValueError(MsgUniform))

\* minimum <= mode <= maximum
PertOrdered(a) == a.minimum.v <= a.mode.v /\ a.mode.v <= a.maximum.v

C6_NormalExclusivePair ==
    \A c \in Calls :
        /\ fn[c] = "normal" /\ PastEntry(c)
        /\ IsNumber(args[c].mean)
        /\ IsNumber(args[c].sigma) /\ IsNumber(args[c].variance)
        => /\ RejectedAtEntry(c)
           /\ result[c].err = ValueError(MsgNormalBoth)
           /\ NoTableWork(c)

\* normal called with a positive sigma and a variance has been refused
C6_Witness ==
    \E c \in Calls :
        /\ fn[c] = "normal"
        /\ IsNumber(args[c].sigma) /\ args[c].sigma.v > 0
        /\ IsNumber(args[c].variance)
        /\ result[c] = Raised(ValueError(MsgNormalBoth))

\* the two refusals the documentation of normal allows
NormalDocumentedErrors == {ValueError(MsgNormalBoth), ValueError(MsgSigma)}

\* C7: normal called with sigma omitted passes validation and reaches the
\* create-and-invoke sequence, with a positive variance or with variance
\* omitted too; its only validation failures are the invalid-argument errors
\* for 'both supplied' and for 'sigma <= 0'.
C7_NormalSigmaOptional ==
    \A c \in Calls :
        fn[c] = "normal" /\ PastEntry(c) =>
            /\ RejectedAtEntry(c) /\ (\A k \in DOMAIN args[c] : args[c][k].t \in {"None", "num"})
                  => result[c].err \in NormalDocumentedErrors
            /\ /\ args[c].sigma = None
               /\ args[c].variance = None \/ args[c].variance.v > 0
               /\ ValidNumRandom(common[c])
               /\ PastChecks(c)
               => ReachedTry(c)

\* the arguments of call c other than num_random and seed are valid: the
\* entry point handed its rows to _rds, or n and pvals of multinomial are
\* an int and a tuple of numbers in [0, 1]
OtherwiseValid(c) ==
    \/ fn[c] \in UnivariateFns /\ dist_params[c] # <<>>
    \/ fn[c] = "multinomial" /\ ValidTrials(args[c]) /\ ValidPvals(args[c])

\* C8: a univariate entry point (through _rds) or multinomial called with
\* num_random < 0 and otherwise valid arguments ends with an invalid-argument
\* error, and no table has been created, no procedure invoked and no drop
\* attempted; num_random = 0 is accepted.
C8_NumRandomNonNegative ==
    \A c \in Calls :
        OtherwiseValid(c) /\ IsInt(common[c].num_random) /\ PastChecks(c) =>
            IF common[c].num_random.v < Num(0).v
            THEN /\ Rejected(c)
                 /\ result[c].err = ValueError(MsgNumRandom)
                 /\ NoTableWork(c)
            ELSE ReachedTry(c)

\* a univariate call with num_random = -1 has been refused by _rds
C8_Witness ==
    \E c \in Calls :
        /\ fn[c] \in UnivariateFns /\ OtherwiseValid(c)
        /\ common[c].num_random = Num(-1)
        /\ result[c] = Raised(ValueError(MsgNumRandom))

\* call c has a negative seed and otherwise valid arguments
NegativeSeed(c) ==
    /\ OtherwiseValid(c) /\ ValidNumRandom(common[c])
    /\ IsInt(common[c].seed) /\ common[c].seed.v < Num(0).v

\* C9, as claimed: a univariate entry point (through _rds) or multinomial
\* called with seed < 0 and otherwise valid arguments ends with an
\* invalid-argument error before any table is created or procedure invoked.
C9_SeedNonNegative ==
    \A c \in Calls :
        NegativeSeed(c) /\ PastChecks(c) =>
            /\ Rejected(c)
            /\ IsInvalidArgument(result[c].err)
            /\ NoTableWork(c)

\* C9, amended: a negative seed is not refused; the call reaches its try
\* block and the SEED row carries the seed as given.
C9_SeedPassedThrough ==
    \A c \in Calls :
        NegativeSeed(c) /\ PastChecks(c) =>
            /\ ReachedTry(c)
            /\ \E i \in 1..Len(prep[c].params) :
                  prep[c].params[i] = <<"SEED", common[c].seed, None, None>>

\* a call with seed = -1 has invoked the procedure with SEED = -1
C9_Witness ==
    \E c \in Calls :
        /\ NegativeSeed(c)
        /\ \E i \in 1..Len(events) :
              /\ events[i].call = c /\ events[i].op = "call_pal"
              /\ \E k \in 1..Len(events[i].data[2]) :
                    events[i].data[2][k] = <<"SEED", Num(-1), None, None>>

\* C10, as claimed: whenever an entry point refuses its arguments (here: by
\* one of the `raise ValueError` statements of the source), the connection
\* has received no call of any kind, require_pal_usable included.
C10_NoConnUseBeforeRejection ==
    \A c \in Calls :
        Rejected(c) /\ result[c].err.type = "ValueError" => NoConnUse(c)

\* C10, amended: whenever an entry point refuses its arguments, no table has
\* been created, no procedure invoked and no drop attempted; the checks of a
\* univariate entry point itself precede every use of the connection, while
\* the checks of _rds, multinomial and mcmc follow exactly one use, the
\* require_pal_usable that is their first statement.
C10_RejectionBeforeTableWork ==
    \A c \in Calls :
        Rejected(c) =>
            /\ NoTableWork(c)
            /\ IF RejectedAtEntry(c) THEN NoConnUse(c)
               ELSE ConnUses(c) = <<Event(c, "require_pal_usable", "", <<>>)>>

\* mcmc has refused an unknown distribution name after require_pal_usable
C10_Witness ==
    \E c \in Calls :
        /\ fn[c] = "mcmc" /\ Rejected(c)
        /\ result[c].err = ArgError("distribution")
        /\ ConnUses(c) = <<Event(c, "require_pal_usable", "", <<>>)>>

\* ------------------------------------------------------------ table names
\* the table names call c computed
TableNames(c) == {prep[c].tables[i] : i \in 1..Len(prep[c].tables)}

\* the distribution and procedure names that open a table name
NamePrefixes ==
    {"BERNOULLI", "BETA", "BINOMIAL", "CAUCHY", "CHI_SQUARED", "EXPONENTIAL",
     "EXTREME_VALUE", "FISHER_F", "GAMMA", "GEOMETRIC", "LOGNORMAL",
     "NEGATIVE_BINOMIAL", "NORMAL", "PERT", "POISSON", "STUDENT_T", "UNIFORM",
     "WEIBULL", "MULTINOMIAL", "PAL_MCMC"}

\* '#' + <name> + '_' + <role> + '_': a name of the convention, less its
\* identifier
ConventionalStems ==
    {"#" \o p \o "_" \o Roles[i] \o "_" : p \in NamePrefixes, i \in 1..Len(Roles)}
\* the same with '_TBL' after the role
TblStems ==
    {"#" \o p \o "_" \o Roles[i] \o "_TBL_" : p \in NamePrefixes, i \in 1..Len(Roles)}

\* the names that end in the n-th identifier drawn; every call draws at most
\* one identifier
NamesOfId ==
    [n \in 1..Cardinality(Calls) |->
        {stem \o unique_id(n) : stem \in ConventionalStems \cup TblStems}]

\* every name of call c ends in the n-th identifier drawn
CarriesId(c, n) == TableNames(c) \subseteq NamesOfId[n]

\* C11: the names two calls computed, whether the calls ran one after the
\* other or interleaved, are disjoint sets; within a call the names are
\* pairwise distinct and all end in one identifier, which no other call's
\* names end in.
C11_NamesDisjoint ==
    /\ \A c, d \in Calls : c # d => TableNames(c) \cap TableNames(d) = {}
    /\ \A c \in Calls :
          prep[c].ok =>
              /\ Cardinality(TableNames(c)) = Len(prep[c].tables)
              /\ \E n \in 1..clock :
                    /\ CarriesId(c, n)
                    /\ \A d \in Calls \ {c} : prep[d].ok => ~CarriesId(d, n)

\* two calls of the same entry point have both computed their names and
\* neither has created its table yet
C11_Witness ==
    /\ fn[1] = fn[2]
    /\ pc[1] = "create" /\ pc[2] = "create"
    /\ prep[1].ok /\ prep[2].ok

\* ---------------------------------------------------------- failed calls
\* the events of call c, in order
EventsOf(c) == SelectSeq(events, LAMBDA e : e.call = c)
\* how many times call c did op
Count(c, op) == Len(SelectSeq(events, LAMBDA e : e.call = c /\ e.op = op))

\* create or call_pal of call c raised an error of a database driver
DbFailure(c) == exc[c].type \in {"dbapi.Error", "pyodbc.Error"}

\* a drop was attempted for every table name of call c, in the order of the
\* names, as the last thing the call did
AllDropsAttempted(c) ==
    LET mine == EventsOf(c)
        n == Len(prep[c].tables)
    IN  /\ Len(mine) >= n
        /\ \A i \in 1..n :
              mine[Len(mine) - n + i] = Event(c, "drop", prep[c].tables[i], <<>>)

\* ... and the error was logged right before the drops
LoggedThenDropped(c) ==
    LET mine == EventsOf(c)
        n == Len(prep[c].tables)
    IN  /\ AllDropsAttempted(c)
        /\ Len(mine) > n
        /\ mine[Len(mine) - n].op = "logger.exception"

\* C12: a call whose create or invocation failed with a dbapi.Error or a
\* pyodbc.Error, whatever its args, has logged the error, then attempted to
\* drop every one of its table names, and only then raised.
C12_DbErrorLoggedDroppedRaised ==
    \A c \in Calls :
        pc[c] = "done" /\ DbFailure(c) =>
            /\ result[c].kind = "raised"
            /\ LoggedThenDropped(c)

\* C13: the exception a call raises after its create or invocation failed
\* with a dbapi.Error or a pyodbc.Error is that very error.
C13_OriginalErrorReachesCaller ==
    \A c \in Calls :
        pc[c] = "done" /\ DbFailure(c) => result[c] = Raised(exc[c])

\* C14: a call that ended with an exception raised inside its
\* create-and-invoke sequence, whatever the exception's type, has attempted
\* to drop every one of its table names. Stated for the exceptions that are
\* no driver errors, with pyodbc imported.
C14_DroppedOnEveryFailure ==
    \A c \in Calls :
        pc[c] = "done" /\ exc[c] # NoErr /\ ~DbFailure(c) /\ pyodbc =>
            AllDropsAttempted(c)

\* C15: a call that ended returned a handle over its RESULT table or raised
\* an exception; it returned the handle only if its create and its invocation
\* completed without error; a call that has not ended has neither.
C15_HandleOrException ==
    \A c \in Calls :
        /\ pc[c] # "done" => result[c] = NoResult
        /\ pc[c] = "done" =>
              /\ result[c].kind \in {"handle", "raised"}
              /\ exc[c] # NoErr => result[c].kind = "raised"
              /\ result[c].kind = "handle" =>
                    /\ prep[c].ok
                    /\ result[c].tbl = prep[c].tables[Len(prep[c].tables)]
                    /\ result[c].tbl \in db
                    /\ Count(c, "call_pal") = 1
                    /\ fn[c] # "mcmc" =>
                          Count(c, "create") = 1 /\ prep[c].tables[1] \in db

\* a call whose create failed has dropped its tables and raised
C15_Witness ==
    \E c \in Calls :
        /\ pc[c] = "done"
        /\ exc[c].type = "dbapi.Error" /\ exc[c].msg = "create"
        /\ Count(c, "drop") = 3
        /\ result[c].kind = "raised"

\* C16: a univariate or multinomial call creates at most one table and
\* invokes the procedure at most once; one that returned did each exactly
\* once, dropped nothing, and left the distribution-parameter table and
\* the general-parameter table in the session.
C16_OneCreateOneInvoke ==
    \A c \in Calls :
        fn[c] # "mcmc" =>
            /\ Count(c, "create") <= 1
            /\ Count(c, "call_pal") <= 1
            /\ pc[c] = "done" /\ result[c].kind = "handle" =>
                  /\ Count(c, "create") = 1
                  /\ Count(c, "call_pal") = 1
                  /\ Count(c, "drop") = 0
                  /\ {prep[c].tables[1], prep[c].tables[2]} \subseteq db

\* a multinomial call has returned its handle
C16_Witness ==
    \E c \in Calls :
        /\ fn[c] = "multinomial"
        /\ pc[c] = "done"
        /\ result[c].kind = "handle"
        /\ Count(c, "call_pal") = 1

\* ------------------------------------------------------ the form of names
\* the names of the convention that end in the n-th identifier drawn
ConventionalNamesOfId ==
    [n \in 1..Cardinality(Calls) |->
        {stem \o unique_id(n) : stem \in ConventionalStems}]

\* C17 as stated: every table name of every entry point is
\* '#' + <distribution or procedure name> + '_' + <role> + '_' + <unique id>.
C17_ConventionalNames ==
    \A c \in Calls :
        prep[c].ok => \E n \in 1..clock : TableNames(c) \subseteq ConventionalNamesOfId[n]

\* C17, amended: the names of a univariate call are '#' + its
\* DISTRIBUTIONNAME + '_' + role + '_' + id for the three roles in order and
\* those of multinomial the same with MULTINOMIAL; the two names of mcmc are
\* '#PAL_MCMC_' + role + '_TBL_' + id for PARAMETER and RESULT.
C17_NameForms ==
    \A c \in Calls :
        prep[c].ok =>
            \E n \in 1..clock :
                LET uid == unique_id(n)
                    named(p) == [i \in 1..3 |-> "#" \o p \o "_" \o Roles[i] \o "_" \o uid]
                IN  CASE fn[c] = "mcmc" ->
                            prep[c].tables = << "#PAL_MCMC_PARAMETER_TBL_" \o uid,
                                                "#PAL_MCMC_RESULT_TBL_" \o uid >>
                      [] fn[c] = "multinomial" -> prep[c].tables = named("MULTINOMIAL")
                      [] OTHER ->
                            prep[c].tables =
                                named(dict_get(dist_params[c], "DISTRIBUTIONNAME").v)

\* a call of mcmc has computed its two names, '_TBL' between role and id
C17_Witness ==
    \E c \in Calls :
        /\ fn[c] = "mcmc"
        /\ prep[c].ok
        /\ prep[c].tables = << "#PAL_MCMC_PARAMETER_TBL_UUID_1",
                               "#PAL_MCMC_RESULT_TBL_UUID_1" >>

\* -------------------------------------------- the parameters mcmc encodes
\* the parameters distribution d lists
ListedParams(d) ==
    {dict_get(dstr_param_lst, d)[i] : i \in 1..Len(dict_get(dstr_param_lst, d))}

\* the deprecated argument the docstring of mcmc names as the alias of a
\* parameter of distribution d, "none" where it names none
AliasOf(d, param) ==
    CASE param = "mu" -> "location"
      [] param = "sigma" -> "scale"
      [] param = "nu" -> "dof"
      [] param = "xi" /\ d = "skew_normal" -> "location"
      [] param = "omega" /\ d = "skew_normal" -> "scale"
      [] param = "alpha" /\ d = "skew_normal" -> "shape"
      [] param = "beta" /\ d \in {"gumbel", "exponential"} -> "scale"
      [] OTHER -> "none"

\* the caller of c gave the parameter a value
Supplied(c, param) == args[c][ArgName(param)] # None

\* the parameter has no value of its own and none from its alias
ResolvesToNone(c, param) ==
    /\ ~Supplied(c, param)
    /\ \/ AliasOf(args[c].distribution, param) = "none"
       \/ args[c][AliasOf(args[c].distribution, param)] = None

\* the value call c encoded for the parameter in DISTRIBUTION_PARAM
Encoded(c, param) == dict_get(prep[c].params[2][4].v, upper(param))

\* [v] if not a list else v
AsList(v) == IF v.t = "list" THEN v ELSE List(<<v>>)

\* the value the alias stands for: scale inversed for exponential
Fallback(c, param) ==
    IF param = "beta" /\ args[c].distribution = "exponential"
    THEN Reciprocal(args[c].scale)
    ELSE args[c][AliasOf(args[c].distribution, param)]

\* C18: a call of mcmc for which a listed parameter of its distribution has
\* no value, neither its own nor one from its deprecated alias, ends with an
\* invalid-argument error and does not invoke the procedure.
C18_MissingRequiredRejected ==
    \A c \in Calls :
        fn[c] = "mcmc" /\ PastChecks(c) /\ args[c].distribution \in McmcKeys =>
            \A param \in ListedParams(args[c].distribution) :
                ResolvesToNone(c, param) =>
                    /\ Rejected(c)
                    /\ IsInvalidArgument(result[c].err)
                    /\ Count(c, "call_pal") = 0

\* C19: mcmc does not reject as `distribution` any name its docstring
\* lists, and ends with an invalid-argument error, the procedure not
\* invoked, for every other name.
C19_DocumentedNamesAccepted ==
    \A c \in Calls :
        fn[c] = "mcmc" /\ PastChecks(c) =>
            /\ args[c].distribution \in McmcDocumented =>
                  ~(Rejected(c) /\ result[c].err = ArgError("distribution"))
            /\ args[c].distribution \notin McmcDocumented =>
                  /\ Rejected(c)
                  /\ IsInvalidArgument(result[c].err)
                  /\ Count(c, "call_pal") = 0

\* C20: in a call of mcmc that reached its try block, a listed parameter
\* the caller supplied is encoded with its own value, and one the caller did
\* not supply is encoded with the value of its documented alias: mu and xi
\* with location, sigma and omega with scale, alpha with shape, nu with dof,
\* beta with scale for gumbel and with 1/scale for exponential.
C20_AliasFallback ==
    \A c \in Calls :
        fn[c] = "mcmc" /\ prep[c].ok =>
            \A param \in ListedParams(args[c].distribution) :
                IF Supplied(c, param)
                THEN Encoded(c, param) = AsList(args[c][ArgName(param)])
                ELSE AliasOf(args[c].distribution, param) # "none" =>
                        Encoded(c, param) = AsList(Fallback(c, param))

\* ------------------------------------------------ the parameter rows of mcmc
\* the rows of call c named DISTRIBUTION_PARAM
BlobRows(c) ==
    {i \in 1..Len(prep[c].params) : prep[c].params[i][1] = "DISTRIBUTION_PARAM"}

\* the keys DISTRIBUTION_PARAM is documented to carry
KeyOf == [mu |-> "MU", sigma |-> "SIGMA", xi |-> "XI", alpha |-> "ALPHA",
          beta |-> "BETA", nu |-> "NU", omega |-> "OMEGA", L |-> "L",
          y_min |-> "Y_MIN", lambda |-> "LAMBDA"]

\* C21: in a call of mcmc that reached its try block exactly one row is
\* named DISTRIBUTION_PARAM; it carries the blob in its string slot and
\* nothing in the other two; the keys of the blob are the upper-cased names
\* of the list the distribution declares, in the declared order, and every
\* value is a list.
C21_BlobKeys ==
    \A c \in Calls :
        fn[c] = "mcmc" /\ prep[c].ok =>
            /\ Cardinality(BlobRows(c)) = 1
            /\ \A i \in BlobRows(c) :
                  LET row == prep[c].params[i]
                      required == dict_get(dstr_param_lst, args[c].distribution)
                  IN  /\ row[2] = None /\ row[3] = None
                      /\ row[4].t = "str"
                      /\ Len(row[4].v) = Len(required)
                      /\ \A k \in 1..Len(required) :
                            /\ row[4].v[k][1] = KeyOf[required[k]]
                            /\ row[4].v[k][2].t = "list"

\* a student_t call has encoded NU, MU and SIGMA, each a one-element list
C21_Witness ==
    \E c \in Calls :
        /\ fn[c] = "mcmc" /\ prep[c].ok
        /\ args[c].distribution = "student_t"
        /\ prep[c].params[2] =
              <<"DISTRIBUTION_PARAM", None, None,
                Str(<< <<"NU", List(<<Num(1)>>)>>, <<"MU", List(<<Num(1)>>)>>,
                       <<"SIGMA", List(<<Num(1)>>)>> >>)>>

\* the multivariate kinds mcmc accepts
MultivariateKinds == {"multinormal", "multinormalprec", "multinormalcholesky",
                      "multistudent_t", "dirichlet"} \cap McmcKeys

\* a one-dimensional sequence of numbers
IsFlat(x) == x.t = "list" /\ \A k \in 1..Len(x.v) : x.v[k].t = "num"

\* the argument is a vector: a list or an array of numbers
IsVector(x) == x.t \in {"list", "ndarray"} /\ \A k \in 1..Len(x.v) : x.v[k].t = "num"

\* the DIMENSION row of call c holds n in its integer slot
DimensionIs(c, n) == prep[c].params[3] = <<"DIMENSION", Num(n), None, None>>

\* C22: in a call of mcmc for a multivariate kind every listed parameter
\* among mu, sigma, omega, L, alpha given as a list, nested or not, or as an
\* array is encoded as a flat sequence of numbers, and DIMENSION is the
\* length of the vector mu (alpha for dirichlet); for every other kind
\* DIMENSION is 1. Stated for the calls whose mu (alpha) is a vector.
C22_FlatAndDimension ==
    \A c \in Calls :
        fn[c] = "mcmc" /\ prep[c].ok =>
            LET d == args[c].distribution
                v == IF d = "dirichlet" THEN args[c].alpha ELSE args[c].mu
            IN  IF d \in MultivariateKinds
                THEN IsVector(v) =>
                        /\ \A param \in ListedParams(d) \cap
                                         {"mu", "sigma", "omega", "L", "alpha"} :
                              args[c][param].t \in {"list", "ndarray"} =>
                                  IsFlat(Encoded(c, param))
                        /\ DimensionIs(c, Len(v.v))
                ELSE DimensionIs(c, 1)

\* the slot of a row (2 integer, 3 double, 4 string) that the documented
\* type of the parameter calls for
DeclaredSlot(name) ==
    CASE name \in {"THREAD_RATIO", "INIT_RADIUS", "STEPSIZE", "STEPSIZE_JITTER",
                   "ADAPT_GAMMA", "ADAPT_DELTA", "ADAPT_KAPPA", "ADAPT_T0"} -> 3
      [] name \in {"DISTRIBUTIONNAME", "DISTRIBUTION_NAME", "DISTRIBUTION_PARAM"} -> 4
      [] OTHER -> 2

\* C23: in every parameter row an entry point built, the slot that is
\* populated is the slot of the parameter's declared type: no row carries a
\* value in another slot.
C23_SlotOfDeclaredType ==
    \A c \in Calls :
        prep[c].ok =>
            \A i \in 1..Len(prep[c].params) :
                \A k \in 2..4 :
                    prep[c].params[i][k] # None => k = DeclaredSlot(prep[c].params[i][1])

\* the named distribution parameters of mcmc
NamedParams == {ParamValueKeys[i] : i \in 1..Len(ParamValueKeys)}

\* the keys of the blob call c encoded
BlobKeys(c) == {prep[c].params[2][4].v[k][1] : k \in 1..Len(prep[c].params[2][4].v)}

\* C24 as stated: in a call of mcmc that reached the procedure invocation
\* every named distribution parameter the caller supplied is in the list of
\* the chosen kind.
C24_SuppliedAreListed ==
    \A c \in Calls :
        fn[c] = "mcmc" /\ prep[c].ok =>
            \A param \in NamedParams :
                Supplied(c, param) => param \in ListedParams(args[c].distribution)

\* C24, amended: a call of mcmc that supplies a named parameter its kind
\* does not list can reach the procedure invocation, and whenever it does
\* the parameter is left out: the keys of DISTRIBUTION_PARAM are those of
\* the listed parameters only.
C24_UnlistedLeftOut ==
    \A c \in Calls :
        fn[c] = "mcmc" /\ prep[c].ok =>
            /\ BlobKeys(c) = {KeyOf[param] : param \in ListedParams(args[c].distribution)}
            /\ \A param \in NamedParams \ ListedParams(args[c].distribution) :
                  Supplied(c, param) => KeyOf[param] \notin BlobKeys(c)

\* a call for the normal distribution that supplied xi has invoked the
\* procedure with MU and SIGMA only
C24_Witness ==
    \E c \in Calls :
        /\ fn[c] = "mcmc" /\ args[c].distribution = "normal"
        /\ args[c].xi = Num(1)
        /\ Count(c, "call_pal") = 1
        /\ BlobKeys(c) = {"MU", "SIGMA"}

\* ------------------------------------------------- calls that do not meddle
\* the tables the steps call c completed have left in the session
TablesLeftBy(c) ==
    (IF Count(c, "create") = 1 /\ exc[c].msg # "create"
     THEN {prep[c].tables[1]} ELSE {})
    \cup (IF pc[c] \in {"return", "done"} /\ exc[c] = NoErr /\ prep[c].ok
          THEN {prep[c].tables[Len(prep[c].tables) - 1],
                prep[c].tables[Len(prep[c].tables)]}
          ELSE {})

\* how a call ends, given what its own create and invocation raised
OutcomeAlone(c) ==
    IF exc[c] = NoErr THEN Handle(prep[c].tables[Len(prep[c].tables)])
    ELSE IF exc[c].type = "dbapi.Error" THEN Raised(exc[c])
    ELSE IF ~pyodbc THEN Raised(NameError)
    ELSE IF exc[c].type = "pyodbc.Error"
         THEN (IF exc[c].nargs >= 2 THEN Raised(exc[c]) ELSE Raised(IndexError))
    ELSE Raised(exc[c])

\* C25: with two calls interleaved on one connection, every drop a call
\* issues names a table of that same call; the tables a call has created
\* and not dropped itself are in the session whatever the other call did;
\* and a call that prepared its tables ends as its own create and invocation
\* make it end.
C25_NoInterference ==
    /\ \A i \in 1..Len(events) :
          events[i].op = "drop" => events[i].name \in TableNames(events[i].call)
    /\ \A c \in Calls :
          Count(c, "drop") = 0 => TablesLeftBy(c) \subseteq db
    /\ \A c \in Calls :
          pc[c] = "done" /\ prep[c].ok => result[c] = OutcomeAlone(c)

\* call 2 created its table, then call 1 failed and dropped its own tables,
\* and call 2 went on to return its handle
C25_Witness ==
    /\ pc[1] = "done" /\ result[1].kind = "raised" /\ Count(1, "drop") = 3
    /\ pc[2] = "done" /\ result[2].kind = "handle"
    /\ \E i, j, k \in 1..Len(events) :
          /\ i < j /\ j < k
          /\ events[i].call = 2 /\ events[i].op = "create"
          /\ events[j].call = 1 /\ events[j].op = "drop"
          /\ events[k].call = 2 /\ events[k].op = "call_pal"

\* --------------------------------------------------- the tables of multinomial
\* the names of the probability columns
ProbabilityColumns == <<"P1", "P2", "P3", "P4", "P5">>

\* the create events and the invocations of call c
Creates(c) == SelectSeq(events, LAMBDA e : e.call = c /\ e.op = "create")
Invocations(c) == SelectSeq(events, LAMBDA e : e.call = c /\ e.op = "call_pal")

\* C26: the table a multinomial call with k probabilities creates has the
\* k + 1 columns TRIALS, P1, ..., Pk in that order and the single row
\* (n, pvals[0], ..., pvals[k-1]); the rows handed to the procedure are
\* DISTRIBUTIONNAME = 'MULTINOMIAL', NUM_RANDOM, SEED and THREAD_RATIO.
C26_MultinomialTables ==
    \A c \in Calls :
        fn[c] = "multinomial" =>
            /\ \A e \in {Creates(c)[i] : i \in 1..Len(Creates(c))} :
                  LET k == Len(args[c].pvals.v)
                      spec == e.data[1]
                      data == e.data[2]
                  IN  /\ Len(spec) = k + 1
                      /\ spec[1][1] = "TRIALS"
                      /\ \A i \in 1..k : spec[i + 1][1] = ProbabilityColumns[i]
                      /\ Len(data) = 1
                      /\ Len(data[1]) = k + 1
                      /\ data[1][1] = args[c].n
                      /\ \A i \in 1..k : data[1][i + 1] = args[c].pvals.v[i]
            /\ \A e \in {Invocations(c)[i] : i \in 1..Len(Invocations(c))} :
                  e.data[2] = << <<"DISTRIBUTIONNAME", None, None, Str("MULTINOMIAL")>>,
                                 <<"NUM_RANDOM", common[c].num_random, None, None>>,
                                 <<"SEED", common[c].seed, None, None>>,
                                 <<"THREAD_RATIO", None, common[c].thread_ratio, None>> >>

\* a multinomial call with two probabilities has created its table and
\* invoked the procedure
C26_Witness ==
    \E c \in Calls :
        /\ fn[c] = "multinomial"
        /\ prep[c].ok
        /\ Len(args[c].pvals.v) = 2
        /\ Len(Creates(c)) = 1 /\ Len(Invocations(c)) = 1
        /\ Creates(c)[1].data[1][3][1] = "P2"

\* ------------------------------------------------------ the order of steps
\* the uses of the connection by call c, by name, in order
OpsOf(c) == [i \in 1..Len(ConnUses(c)) |-> ConnUses(c)[i].op]

\* s is an initial part of t
IsPrefix(s, t) == Len(s) <= Len(t) /\ \A i \in 1..Len(s) : s[i] = t[i]

\* the uses of the connection in a call of _rds or multinomial that meets no
\* error: the check of PAL, the create, the handle of the created table for
\* the invocation, the invocation, and the handle that is returned
StepsInOrder == <<"require_pal_usable", "create", "table", "call_pal", "table">>

\* the create of call c raised
CreateFailed(c) == exc[c].msg = "create"

\* C27: a call of _rds or multinomial validates, computes its names, creates
\* the distribution-parameter table, invokes the procedure and returns the
\* handle, in this order; the procedure is invoked only after the create
\* completed without error; and a call whose create failed ends without an
\* invocation and with a drop attempted for each of its three names. The
\* last part is stated for a create that raised an error of a database
\* driver.
C27_StepsInOrder ==
    \A c \in Calls :
        fn[c] \in UnivariateFns \cup {"multinomial"} =>
            /\ Count(c, "drop") = 0 => IsPrefix(OpsOf(c), StepsInOrder)
            /\ Count(c, "create") > 0 => prep[c].ok
            /\ Count(c, "call_pal") > 0 =>
                  Count(c, "create") = 1 /\ ~CreateFailed(c)
            /\ CreateFailed(c) /\ DbFailure(c) /\ pc[c] = "done" =>
                  /\ Count(c, "call_pal") = 0
                  /\ Len(prep[c].tables) = 3
                  /\ AllDropsAttempted(c)

\* ---------------------------------------------------- the adaption rows
AdaptionRowNames == <<"ADAPT_GAMMA", "ADAPT_DELTA", "ADAPT_KAPPA", "ADAPT_T0",
                      "ADAPT_INIT_BUFFER", "ADAPT_TERM_BUFFER", "ADAPT_WINDOW">>

\* the names of the rows call c built, in order
RowNames(c) == [i \in 1..Len(prep[c].params) |-> prep[c].params[i][1]]

\* the rows the same call builds with adapt=False
RowsAdaptOff(c) == mcmc_prepare([args[c] EXCEPT !.adapt = Bool(FALSE)], "").params

\* C28 as stated: the seven adaption rows are among the rows of mcmc
\* exactly when adapt is not False, and the other rows are the same as with
\* adapt False.
C28_OtherRowsSame ==
    \A c \in Calls :
        fn[c] = "mcmc" /\ prep[c].ok =>
            LET rows == prep[c].params
                off == RowsAdaptOff(c)
                n == Len(off)
            IN  /\ Len(rows) = IF args[c].adapt = Bool(FALSE) THEN n ELSE n + 7
                /\ \A i \in 1..n : rows[i] = off[i]
                /\ \A i \in (n + 1)..Len(rows) : rows[i][1] = AdaptionRowNames[i - n]

\* C28, amended: the rows of mcmc end with the seven adaption rows, carrying
\* the adapt_* arguments, exactly when adapt is not False; with adapt False
\* none of the seven is among the rows whatever the adapt_* arguments are;
\* the rows before them are the same in both cases, but for ADAPT_ENGAGED
\* which carries adapt itself.
C28_AdaptionRows ==
    \A c \in Calls :
        fn[c] = "mcmc" /\ prep[c].ok =>
            LET rows == prep[c].params
                off == RowsAdaptOff(c)
                n == Len(off)
            IN  /\ \A i \in 1..n : \A k \in 1..7 : off[i][1] # AdaptionRowNames[k]
                /\ IF args[c].adapt = Bool(FALSE)
                   THEN rows = off
                   ELSE /\ Len(rows) = n + 7
                        /\ \A i \in 1..n :
                              IF off[i][1] = "ADAPT_ENGAGED"
                              THEN rows[i] = <<"ADAPT_ENGAGED", args[c].adapt, None, None>>
                              ELSE rows[i] = off[i]
                        /\ SubSeq(rows, n + 1, n + 7) =
                              << <<"ADAPT_GAMMA", None, args[c].adapt_gamma, None>>,
                                 <<"ADAPT_DELTA", None, args[c].adapt_delta, None>>,
                                 <<"ADAPT_KAPPA", None, args[c].adapt_kappa, None>>,
                                 <<"ADAPT_T0", None, args[c].adapt_offset, None>>,
                                 <<"ADAPT_INIT_BUFFER", args[c].adapt_init_buffer, None, None>>,
                                 <<"ADAPT_TERM_BUFFER", args[c].adapt_term_buffer, None, None>>,
                                 <<"ADAPT_WINDOW", args[c].adapt_window, None, None>> >>

\* a call with adapt=False and adapt_gamma=0.5 has invoked the procedure
\* with no adaption row
C28_Witness ==
    \E c \in Calls :
        /\ fn[c] = "mcmc"
        /\ args[c].adapt = Bool(FALSE) /\ args[c].adapt_gamma = Half(1)
        /\ Count(c, "call_pal") = 1
        /\ RowNames(c)[Len(RowNames(c))] = "MAX_TREEDEPTH"

\* ------------------------------------- the aliases a distribution leaves unused
\* the deprecated aliases of mcmc
Aliases == {"location", "scale", "shape", "dof"}

\* the distributions whose list has no beta
NoBetaKinds == {d \in McmcKeys : "beta" \notin ListedParams(d)}

\* the call with its aliases as the signature of mcmc defaults them
WithDefaultAliases(a) ==
    [a EXCEPT !.location = McmcDefaults.location, !.scale = McmcDefaults.scale,
              !.shape = McmcDefaults.shape, !.dof = McmcDefaults.dof]

\* call c names every parameter of its distribution and nothing else but
\* aliases, each alias a number or None
NamesAllListed(c) ==
    /\ WithDefaultAliases(args[c]) = McmcNamed(args[c].distribution)
    /\ \A al \in Aliases : args[c][al] = None \/ IsNumber(args[c][al])

\* C29: a call of mcmc for a distribution whose list has no beta, naming
\* every listed parameter, reaches its try block and encodes the same
\* DISTRIBUTION_PARAM whatever the values of location, scale, shape and dof
\* are, scale = 0 and scale = None included.
C29_UnusedAliasesHarmless ==
    \A c \in Calls :
        /\ fn[c] = "mcmc"
        /\ PastChecks(c)
        /\ args[c].distribution \in NoBetaKinds
        /\ NamesAllListed(c)
        => /\ prep[c].ok
           /\ prep[c].params[2] =
                  mcmc_prepare(McmcNamed(args[c].distribution), "").params[2]

\* ------------------------------------------------- handling without pyodbc
\* C30: with pyodbc not imported, a call whose create or invocation raised
\* a dbapi.Error has logged it, attempted its drops and raised that error,
\* and a call whose create or invocation raised an exception of any other
\* type has raised that same exception.
C30_SameWithoutPyodbc ==
    \A c \in Calls :
        pc[c] = "done" /\ exc[c] # NoErr /\ ~pyodbc =>
            /\ result[c] = Raised(exc[c])
            /\ exc[c].type = "dbapi.Error" => LoggedThenDropped(c)

====
